---- MODULE Spec2Model ----
(***************************************************************************)
(* A model of the input-to-action concurrency engine of the terminal file  *)
(* manager: the task orchestrator (yeet-frontend/src/task.rs), the event   *)
(* multiplexer (yeet-frontend/src/event.rs) and the shared key resolver.   *)
(*                                                                         *)
(* Tokio tasks are processes whose steps are the stretches of code between *)
(* two await points. AbortHandle::abort only marks a task: a task that is  *)
(* suspended is then dropped without being polled again, and a task that a *)
(* worker thread is polling goes on to the next await that suspends it.    *)
(* So a marked task never resumes from a file system await (these always   *)
(* suspend), and may go on through awaits that can be ready at once: the   *)
(* next buffered directory entry, a send on a channel with a free slot.    *)
(***************************************************************************)
EXTENDS Integers, Sequences, FiniteSets, TLC

\* ------------------------------------------------------------------ bounds
\* Number of run() calls made by the update loop.
MaxRuns == 2
\* Number of abort() calls made by the update loop.
MaxAborts == 1
\* Number of terminal events the listeners read.
MaxEvents == 2
\* Number of keys fed to the resolver.
MaxKeys == 3
\* Number of results the file system watcher sends.
MaxNotify == 2

\* Watcher results per run where every kind of event is gone through.
MaxTranslated == 1
\* WatchPath and UnwatchPath actions the update loop processes.
MaxActions == 3
\* Number of suspend() calls made by the update loop.
MaxSuspends == 2
\* Number of resume() calls made by the update loop.
MaxResumes == 1
\* Number of entries of the directory /a while tasks run concurrently (Spec).
DirEntries == 2
\* Largest number of entries of the enumerated directory (SpecEnumerate).
MaxEntries == 401

\* ------------------------------------------------------- program constants
\* `let mut cache_size = 100` of the directory enumeration.
InitialCacheSize == 100
\* mpsc::channel(1): the outbound channel and the task completion channel.
ChannelCapacity == 1

\* ------------------------------------------------------------ task values
\* Task is an enum deriving Eq/PartialEq: a variant and its payload.
Task(variant, payload) == [variant |-> variant, payload |-> payload]

Variants ==
    {"AddPath", "DeletePath", "DeleteRegisterEntry", "EmitMessages",
     "EnumerateDirectory", "LoadPreview", "OptimizeHistory", "RenamePath",
     "RestorePath", "SaveHistory", "TrashPath", "YankPath"}

\* The policy with a slip: every variant is aborted on shutdown.
should_abort_on_finish_always(task) == TRUE

\* The policy with a slip: an enumeration is left to complete on shutdown.
should_abort_on_finish_but_enumerations(task) ==
    task.variant \in {"EmitMessages", "LoadPreview"}

should_abort_on_finish(task) ==
    CASE task.variant = "AddPath" -> FALSE
      [] task.variant = "DeletePath" -> FALSE
      [] task.variant = "DeleteRegisterEntry" -> FALSE
      [] task.variant = "EmitMessages" -> TRUE
      [] task.variant = "EnumerateDirectory" -> TRUE
      [] task.variant = "LoadPreview" -> TRUE
      [] task.variant = "OptimizeHistory" -> FALSE
      [] task.variant = "RenamePath" -> FALSE
      [] task.variant = "RestorePath" -> FALSE
      [] task.variant = "SaveHistory" -> FALSE
      [] task.variant = "TrashPath" -> FALSE
      [] task.variant = "YankPath" -> FALSE


\* ------------------------------------------------------------- file system
Paths == {"/a", "/b"}

\* The tasks the update loop runs and aborts in this model.
EnumerateDirectory(path) == Task("EnumerateDirectory", <<path>>)
AddPath(path) == Task("AddPath", <<path>>)
DeletePath(path) == Task("DeletePath", <<path>>)
RenamePath(old, new) == Task("RenamePath", <<old, new>>)
LoadPreview(path) == Task("LoadPreview", <<path>>)
EmitMessages(messages) == Task("EmitMessages", <<messages>>)
SaveHistory(history) == Task("SaveHistory", <<history>>)
OptimizeHistory == Task("OptimizeHistory", <<>>)

TaskValues ==
    {EnumerateDirectory("/a"), EnumerateDirectory("/b"), AddPath("/b")}

\* The history file: whether it exists, and its records in order.
NoFile == [exists |-> FALSE, records |-> <<>>]

\* --------------------------------------------------------------- messages
PathEnumerationContentChanged(path, cache) ==
    [type |-> "PathEnumerationContentChanged", path |-> path, content |-> cache]
PathEnumerationFinished(path) ==
    [type |-> "PathEnumerationFinished", path |-> path, content |-> <<>>]
NavigateToPath(path) ==
    [type |-> "NavigateToPath", path |-> path, content |-> <<>>]

PreviewLoaded(path, lines) ==
    [type |-> "PreviewLoaded", path |-> path, content |-> lines]

PathsWriteFinished(paths) == [type |-> "PathsWriteFinished", paths |-> paths]
PathsAdded(paths) == [type |-> "PathsAdded", paths |-> paths]
PathRemoved(path) == [type |-> "PathRemoved", path |-> path, content |-> <<>>]

\* A batch, Vec<Message>. src and seq are for the properties only: src names
\* the source (the id of the task execution, 0 for the merge loop itself, -1
\* for terminal input, -2 for the watcher), seq the number of the terminal
\* event or watcher result the batch comes from.
Batch(src, msgs) == [src |-> src, msgs |-> msgs]
Numbered(src, seq, msgs) == [src |-> src, msgs |-> msgs, seq |-> seq]

VARIABLES
    fs,             \* path -> "missing" | "file" | "dir"
    entries,        \* number of entries of the directory /a
    abort_handles,  \* TaskManager.abort_handles: Vec<(Task, AbortHandle)>
    tasks,          \* TaskManager.tasks (JoinSet) and the spawned futures, by id
    task_channel,   \* task_sender -> task_receiver, capacity 1
    merge,          \* the merge loop spawned by Emitter::start
    channel,        \* sender -> Emitter.receiver, capacity 1
    messages,       \* the batch the update loop received last
    mgr,            \* the caller of the TaskManager: the call in progress
    naborts,        \* number of abort() calls so far
    resolver,       \* Emitter.resolver: the MessageResolver behind the Mutex
    cancellation,   \* Emitter.cancellation: the listener it can stop, 0 for None
    listeners,      \* the futures spawned by start_crossterm_listener, by id
    emitter,        \* the caller of the Emitter: the call in progress
    nevents,        \* number of terminal events read so far
    lock,           \* the Mutex around the resolver: the listener holding it, 0 if free
    notify_channel, \* watcher_sender -> notify_receiver, unbounded
    nnotify,        \* number of results the watcher has sent so far
    history_file,   \* the history file in the cache directory
    app             \* the update loop: its model's mode, its position, the
                    \* post-render actions left, the paths it has watched

\* The state of the terminal-input side.
emitVars == <<resolver, cancellation, listeners, emitter, nevents, lock>>

\* The state of the file system watcher's side.
notifyVars == <<notify_channel, nnotify>>

vars ==
    <<fs, entries, abort_handles, tasks, task_channel, merge, channel,
      messages, mgr, naborts, emitVars, notifyVars, history_file, app>>

\* ------------------------------------------------------------------ helpers
\* Iterator::position: the first index whose task equals `task`, 0 for None.
position(handles, task) ==
    IF \E k \in 1..Len(handles) : handles[k].task = task
    THEN CHOOSE k \in 1..Len(handles) :
            /\ handles[k].task = task
            /\ \A j \in 1..(k - 1) : handles[j].task # task
    ELSE 0

\* Vec::remove(index)
remove(handles, index) ==
    SubSeq(handles, 1, index - 1) \o SubSeq(handles, index + 1, Len(handles))

\* AbortHandle::abort: marks a task that has not completed; no effect on a
\* completed one. `by` names the caller, for the properties only.
abort_handle_abort(ts, id, by) ==
    IF ts[id].result = "running" /\ ~ts[id].aborted
    THEN [ts EXCEPT ![id].aborted = TRUE, ![id].by = by]
    ELSE ts

\* The listing read_dir yields for `path`: its entries in directory order.
Listing(path) == [k \in 1..(IF path = "/a" THEN entries ELSE 0) |-> k]

\* JoinSet::spawn: a new future at its first instruction.
Spawned(task) ==
    [task |-> task, pc |-> "start", aborted |-> FALSE, by |-> "none",
     result |-> "running", error |-> "none", joined |-> FALSE,
     rd |-> <<>>, cache |-> <<>>, cache_size |-> 0, sent |-> <<>>]

Settle(ts, id, result, error) ==
    [ts EXCEPT ![id].pc = "done", ![id].result = result, ![id].error = error]

\* A channel created with one slot more: mpsc::channel(2).
HasCapacity_two_slots(ch) == Len(ch) < ChannelCapacity + 1

\* mpsc::Sender::send completes only while the channel has a free slot.
HasCapacity(ch) == Len(ch) < ChannelCapacity

\* ------------------------------------------------------ TaskManager calls
Idle == mgr.pc = "idle"

\* The update loop is between two calls: no TaskManager or Emitter method is
\* in progress.
Ready == emitter.pc = "idle" /\ Idle

\* run(), first half: `let abort_handle = match task.clone() { .. spawn .. }`.
\* The future is spawned on the runtime here and may start on another
\* worker thread before run() goes on.
RunSpawn(task) ==
    /\ Idle
    /\ Len(tasks) < MaxRuns
    /\ tasks' = Append(tasks, Spawned(task))
    /\ mgr' = [mgr EXCEPT !.pc = "run", !.task = task, !.id = Len(tasks) + 1]
    /\ UNCHANGED <<app, history_file, emitVars, notifyVars, fs, entries, abort_handles, task_channel, merge, channel,
                   messages, naborts>>

\* run(), second half, with a slip: the new handle is pushed and the handle
\* of an equal task is left alone.
RunTrack_without_dedup ==
    /\ mgr.pc = "run"
    /\ abort_handles' = Append(abort_handles, [task |-> mgr.task, id |-> mgr.id])
    /\ mgr' = [mgr EXCEPT !.pc = "idle"]
    /\ UNCHANGED <<app, history_file, emitVars, notifyVars, fs, entries, tasks, task_channel, merge, channel, messages, naborts>>

\* run(), second half: the handle of an equal task is removed and aborted,
\* then the new handle is pushed.
RunTrack ==
    /\ mgr.pc = "run"
    /\ LET index == position(abort_handles, mgr.task)
           kept == IF index # 0 THEN remove(abort_handles, index)
                   ELSE abort_handles
       IN /\ tasks' = IF index # 0
                      THEN abort_handle_abort(tasks, abort_handles[index].id, "run")
                      ELSE tasks
          /\ abort_handles' = Append(kept, [task |-> mgr.task, id |-> mgr.id])
    /\ mgr' = [mgr EXCEPT !.pc = "idle"]
    /\ UNCHANGED <<app, history_file, emitVars, notifyVars, fs, entries, task_channel, merge, channel, messages, naborts>>

\* abort() with a slip: every handle is dropped and aborted.
abort_drains_all(task) ==
    /\ Idle
    /\ naborts < MaxAborts
    /\ naborts' = naborts + 1
    /\ abort_handles' = <<>>
    /\ tasks' = [id \in 1..Len(tasks) |->
                    IF \E k \in 1..Len(abort_handles) : abort_handles[k].id = id
                    THEN abort_handle_abort(tasks, id, "abort")[id]
                    ELSE tasks[id]]
    /\ mgr' = [mgr EXCEPT !.task = task]
    /\ UNCHANGED <<app, history_file, emitVars, notifyVars, fs, entries, task_channel, merge, channel, messages>>

\* abort()
abort(task) ==
    /\ Idle
    /\ naborts < MaxAborts
    /\ naborts' = naborts + 1
    /\ LET index == position(abort_handles, task)
       IN IF index # 0
          THEN /\ abort_handles' = remove(abort_handles, index)
               /\ tasks' = abort_handle_abort(tasks, abort_handles[index].id, "abort")
          ELSE UNCHANGED <<app, history_file, abort_handles, tasks>>
    /\ mgr' = [mgr EXCEPT !.task = task]
    /\ UNCHANGED <<app, history_file, emitVars, notifyVars, fs, entries, task_channel, merge, channel, messages>>

\* The handles finishing() aborts: `for (task, abort_handle) in drain(..)`.
RECURSIVE DrainAbort(_, _)
DrainAbort(handles, ts) ==
    IF handles = <<>> THEN ts
    ELSE DrainAbort(Tail(handles),
                    IF should_abort_on_finish(Head(handles).task)
                    THEN abort_handle_abort(ts, Head(handles).id, "finishing")
                    ELSE ts)

\* finishing(), the drain loop.
FinishingDrain ==
    /\ Idle
    /\ tasks' = DrainAbort(abort_handles, tasks)
    /\ abort_handles' = <<>>
    /\ mgr' = [mgr EXCEPT !.pc = "join", !.errors = <<>>]
    /\ UNCHANGED <<app, history_file, emitVars, notifyVars, fs, entries, task_channel, merge, channel, messages, naborts>>

\* join_next with a slip: `Ok(Err(error))` is dropped like a JoinError.
FinishingJoin_drops_error(id) ==
    /\ mgr.pc = "join"
    /\ ~tasks[id].joined
    /\ tasks[id].result # "running"
    /\ tasks' = [tasks EXCEPT ![id].joined = TRUE]
    /\ UNCHANGED <<app, history_file, emitVars, notifyVars, fs, entries, abort_handles, task_channel, merge, channel,
                   messages, mgr, naborts>>

\* join_next with a slip: `Err(_)`, the JoinError of a cancelled task, is
\* pushed like an error of the operation.
FinishingJoin_counts_cancelled(id) ==
    /\ mgr.pc = "join"
    /\ ~tasks[id].joined
    /\ tasks[id].result # "running"
    /\ tasks' = [tasks EXCEPT ![id].joined = TRUE]
    /\ mgr' = [mgr EXCEPT !.errors =
                  IF tasks[id].result \in {"err", "cancelled"}
                  THEN Append(@, [id |-> id, error |-> tasks[id].error])
                  ELSE @]
    /\ UNCHANGED <<app, history_file, emitVars, notifyVars, fs, entries, abort_handles, task_channel, merge, channel,
                   messages, naborts>>

\* finishing(), one `self.tasks.join_next().await` that yields a task.
FinishingJoin(id) ==
    /\ mgr.pc = "join"
    /\ ~tasks[id].joined
    /\ tasks[id].result # "running"
    /\ tasks' = [tasks EXCEPT ![id].joined = TRUE]
    /\ mgr' = [mgr EXCEPT !.errors =
                  IF tasks[id].result = "err"
                  THEN Append(@, [id |-> id, error |-> tasks[id].error])
                  ELSE @]
    /\ UNCHANGED <<app, history_file, emitVars, notifyVars, fs, entries, abort_handles, task_channel, merge, channel,
                   messages, naborts>>

\* finishing(): join_next() yields None (the JoinSet is empty), the result.
FinishingReturn ==
    /\ mgr.pc = "join"
    /\ \A id \in 1..Len(tasks) : tasks[id].joined
    /\ mgr' = [mgr EXCEPT !.pc = "finished",
                          !.ret = IF mgr.errors = <<>> THEN "Ok" ELSE "Aggregate"]
    /\ UNCHANGED <<app, history_file, emitVars, notifyVars, fs, entries, abort_handles, tasks, task_channel, merge,
                   channel, messages, naborts>>

\* ----------------------------------------------------- the spawned futures
Running(id) == tasks[id].result = "running"
PathOf(id) == tasks[id].task.payload[1]

\* A future whose handle was aborted is dropped at an await that suspends it
\* (or before its first poll): its JoinHandle yields Err(JoinError::Cancelled).
TaskCancel(id) ==
    /\ Running(id)
    /\ tasks[id].aborted
    /\ tasks' = Settle(tasks, id, "cancelled", "none")
    /\ UNCHANGED <<app, history_file, emitVars, notifyVars, fs, entries, abort_handles, task_channel, merge, channel,
                   messages, mgr, naborts>>

\* Task::EnumerateDirectory: `if !path.exists()` and the await of read_dir.
EnumerateStart(id) ==
    /\ Running(id)
    /\ tasks[id].task.variant = "EnumerateDirectory"
    /\ tasks[id].pc = "start"
    /\ tasks' = IF fs[PathOf(id)] = "missing"
                THEN Settle(tasks, id, "err", "InvalidTargetPath")
                ELSE [tasks EXCEPT ![id].pc = "read_dir"]
    /\ UNCHANGED <<app, history_file, emitVars, notifyVars, fs, entries, abort_handles, task_channel, merge, channel,
                   messages, mgr, naborts>>

\* read_dir completed: Err(error) => FileOperationFailed, Ok(rd) => the loop
\* with `cache = Vec::new()` and `cache_size = 100`.
EnumerateReadDir(id) ==
    /\ Running(id)
    /\ ~tasks[id].aborted
    /\ tasks[id].pc = "read_dir"
    /\ tasks' = IF fs[PathOf(id)] # "dir"
                THEN Settle(tasks, id, "err", "FileOperationFailed")
                ELSE [tasks EXCEPT ![id].rd = Listing(PathOf(id)),
                                   ![id].cache = <<>>,
                                   ![id].cache_size = InitialCacheSize,
                                   ![id].pc = "next_entry"]
    /\ UNCHANGED <<app, history_file, emitVars, notifyVars, fs, entries, abort_handles, task_channel, merge, channel,
                   messages, mgr, naborts>>

\* One turn of `while let Some(entry) = rd.next_entry().await?`: the entry
\* is pushed, and `cache.len() >= cache_size` leads to the incremental send;
\* None leaves the loop for the final send.
EnumerateNextEntry(id) ==
    /\ Running(id)
    /\ tasks[id].pc = "next_entry"
    /\ LET cache == tasks[id].cache
           rd == tasks[id].rd
       IN tasks' =
            IF Len(cache) = Len(rd)
            THEN [tasks EXCEPT ![id].pc = "final"]
            ELSE LET pushed == Append(cache, rd[Len(cache) + 1])
                 IN [tasks EXCEPT ![id].cache = pushed,
                                  ![id].pc = IF Len(pushed) >= tasks[id].cache_size
                                             THEN "send" ELSE "next_entry"]
    /\ UNCHANGED <<app, history_file, emitVars, notifyVars, fs, entries, abort_handles, task_channel, merge, channel,
                   messages, mgr, naborts>>

\* The incremental send with a slip: the threshold is not doubled.
EnumerateSend_fixed_threshold(id) ==
    /\ Running(id)
    /\ tasks[id].pc = "send"
    /\ HasCapacity(task_channel)
    /\ LET batch == Batch(id, <<PathEnumerationContentChanged(PathOf(id),
                                                              tasks[id].cache)>>)
       IN /\ task_channel' = Append(task_channel, batch)
          /\ tasks' = [tasks EXCEPT ![id].sent = Append(@, batch.msgs),
                                    ![id].pc = "next_entry"]
    /\ UNCHANGED <<app, history_file, emitVars, notifyVars, fs, entries, abort_handles, merge, channel, messages, mgr,
                   naborts>>

\* The incremental send with a slip: only the entries read since the last
\* send are sent.
EnumerateSend_new_entries_only(id) ==
    /\ Running(id)
    /\ tasks[id].pc = "send"
    /\ HasCapacity(task_channel)
    /\ LET sent == tasks[id].sent
           known == IF sent = <<>> THEN 0
                    ELSE Len(sent[Len(sent)][1].content)
           batch == Batch(id, <<PathEnumerationContentChanged(PathOf(id),
                        SubSeq(tasks[id].cache, known + 1, Len(tasks[id].cache)))>>)
       IN /\ task_channel' = Append(task_channel, batch)
          /\ tasks' = [tasks EXCEPT ![id].sent = Append(@, batch.msgs),
                                    ![id].cache_size = @ * 2,
                                    ![id].pc = "next_entry"]
    /\ UNCHANGED <<app, history_file, emitVars, notifyVars, fs, entries, abort_handles, merge, channel, messages, mgr,
                   naborts>>

\* The incremental send of the cache, then `cache_size *= 2`.
EnumerateSend(id) ==
    /\ Running(id)
    /\ tasks[id].pc = "send"
    /\ HasCapacity(task_channel)
    /\ LET batch == Batch(id, <<PathEnumerationContentChanged(PathOf(id),
                                                              tasks[id].cache)>>)
       IN /\ task_channel' = Append(task_channel, batch)
          /\ tasks' = [tasks EXCEPT ![id].sent = Append(@, batch.msgs),
                                    ![id].cache_size = @ * 2,
                                    ![id].pc = "next_entry"]
    /\ UNCHANGED <<app, history_file, emitVars, notifyVars, fs, entries, abort_handles, merge, channel, messages, mgr,
                   naborts>>

\* The send after the loop: the whole cache and PathEnumerationFinished.
EnumerateFinal(id) ==
    /\ Running(id)
    /\ tasks[id].pc = "final"
    /\ HasCapacity(task_channel)
    /\ LET batch == Batch(id, <<PathEnumerationContentChanged(PathOf(id),
                                                              tasks[id].cache),
                                PathEnumerationFinished(PathOf(id))>>)
       IN /\ task_channel' = Append(task_channel, batch)
          /\ tasks' = Settle([tasks EXCEPT ![id].sent = Append(@, batch.msgs)],
                             id, "ok", "none")
    /\ UNCHANGED <<app, history_file, emitVars, notifyVars, fs, entries, abort_handles, merge, channel, messages, mgr,
                   naborts>>

\* Task::AddPath: `if path.exists()`; the path does not end with '/', so
\* its parent is created and `fs::create_dir_all(parent)` is awaited.
AddPathStart(id) ==
    /\ Running(id)
    /\ tasks[id].task.variant = "AddPath"
    /\ tasks[id].pc = "start"
    /\ tasks' = IF fs[PathOf(id)] # "missing"
                THEN Settle(tasks, id, "err", "InvalidTargetPath")
                ELSE [tasks EXCEPT ![id].pc = "create_dir_all"]
    /\ UNCHANGED <<app, history_file, emitVars, notifyVars, fs, entries, abort_handles, task_channel, merge, channel,
                   messages, mgr, naborts>>

\* `fs::write(path, "")` is started and awaited: it creates the file or
\* truncates the one that is there, and fails on a directory.
AddPathWrite(id) ==
    /\ Running(id)
    /\ ~tasks[id].aborted
    /\ tasks[id].pc = "create_dir_all"
    /\ IF fs[PathOf(id)] = "dir"
       THEN /\ tasks' = [tasks EXCEPT ![id].pc = "write",
                                      ![id].error = "FileOperationFailed"]
            /\ fs' = fs
       ELSE /\ tasks' = [tasks EXCEPT ![id].pc = "write"]
            /\ fs' = [fs EXCEPT ![PathOf(id)] = "file"]
    /\ UNCHANGED <<app, history_file, emitVars, notifyVars, entries, abort_handles, task_channel, merge, channel,
                   messages, mgr, naborts>>

\* The write completed: `?` returns its error, else Ok(()).
AddPathDone(id) ==
    /\ Running(id)
    /\ ~tasks[id].aborted
    /\ tasks[id].pc = "write"
    /\ tasks' = IF tasks[id].error # "none"
                THEN Settle(tasks, id, "err", tasks[id].error)
                ELSE Settle(tasks, id, "ok", "none")
    /\ UNCHANGED <<app, history_file, emitVars, notifyVars, fs, entries, abort_handles, task_channel, merge, channel,
                   messages, mgr, naborts>>

\* Task::DeletePath: `if !path.exists()`, then `path.is_file()` or
\* `path.is_dir()` choose the removal that is awaited.
DeletePathStart(id) ==
    /\ Running(id)
    /\ tasks[id].task.variant = "DeletePath"
    /\ tasks[id].pc = "start"
    /\ tasks' = IF fs[PathOf(id)] = "missing"
                THEN Settle(tasks, id, "err", "InvalidTargetPath")
                ELSE [tasks EXCEPT ![id].pc = "remove"]
    /\ UNCHANGED <<app, history_file, emitVars, notifyVars, fs, entries, abort_handles, task_channel, merge, channel,
                   messages, mgr, naborts>>

\* `fs::remove_file` or `fs::remove_dir_all` runs: it removes the path, and
\* fails if the path is not there any more.
DeletePathRemove(id) ==
    /\ Running(id)
    /\ ~tasks[id].aborted
    /\ tasks[id].pc = "remove"
    /\ IF fs[PathOf(id)] = "missing"
       THEN /\ tasks' = [tasks EXCEPT ![id].pc = "removed",
                                      ![id].error = "FileOperationFailed"]
            /\ fs' = fs
       ELSE /\ tasks' = [tasks EXCEPT ![id].pc = "removed"]
            /\ fs' = [fs EXCEPT ![PathOf(id)] = "missing"]
    /\ UNCHANGED <<app, history_file, emitVars, notifyVars, entries, abort_handles, task_channel, merge, channel,
                   messages, mgr, naborts>>

\* The removal completed: `?` returns its error, else Ok(()).
DeletePathDone(id) ==
    /\ Running(id)
    /\ ~tasks[id].aborted
    /\ tasks[id].pc = "removed"
    /\ tasks' = IF tasks[id].error # "none"
                THEN Settle(tasks, id, "err", tasks[id].error)
                ELSE Settle(tasks, id, "ok", "none")
    /\ UNCHANGED <<app, history_file, emitVars, notifyVars, fs, entries, abort_handles, task_channel, merge, channel,
                   messages, mgr, naborts>>

\* Task::RenamePath with a slip: no check that `old` exists.
RenamePathStart_without_check(id) ==
    /\ Running(id)
    /\ tasks[id].task.variant = "RenamePath"
    /\ tasks[id].pc = "start"
    /\ tasks' = [tasks EXCEPT ![id].pc = "rename"]
    /\ UNCHANGED <<app, history_file, emitVars, notifyVars, fs, entries, abort_handles, task_channel, merge, channel,
                   messages, mgr, naborts>>

\* Task::RenamePath: `if !old.exists()`, then `fs::rename` is awaited.
RenamePathStart(id) ==
    /\ Running(id)
    /\ tasks[id].task.variant = "RenamePath"
    /\ tasks[id].pc = "start"
    /\ tasks' = IF fs[PathOf(id)] = "missing"
                THEN Settle(tasks, id, "err", "InvalidTargetPath")
                ELSE [tasks EXCEPT ![id].pc = "rename"]
    /\ UNCHANGED <<app, history_file, emitVars, notifyVars, fs, entries, abort_handles, task_channel, merge, channel,
                   messages, mgr, naborts>>

\* `fs::rename(old, new)` runs: it moves `old` to a free `new` or a file
\* over a file, and fails if `old` is gone or `new` is in its way.
RenamePathRename(id) ==
    /\ Running(id)
    /\ ~tasks[id].aborted
    /\ tasks[id].pc = "rename"
    /\ LET old == tasks[id].task.payload[1]
           new == tasks[id].task.payload[2]
       IN IF /\ fs[old] # "missing"
             /\ fs[new] = "missing" \/ (fs[old] = "file" /\ fs[new] = "file")
          THEN /\ tasks' = [tasks EXCEPT ![id].pc = "renamed"]
               /\ fs' = [fs EXCEPT ![new] = fs[old], ![old] = "missing"]
          ELSE /\ tasks' = [tasks EXCEPT ![id].pc = "renamed",
                                         ![id].error = "FileOperationFailed"]
               /\ fs' = fs
    /\ UNCHANGED <<app, history_file, emitVars, notifyVars, entries, abort_handles, task_channel, merge, channel,
                   messages, mgr, naborts>>

\* The rename completed: `?` returns its error, else Ok(()).
RenamePathDone(id) ==
    /\ Running(id)
    /\ ~tasks[id].aborted
    /\ tasks[id].pc = "renamed"
    /\ tasks' = IF tasks[id].error # "none"
                THEN Settle(tasks, id, "err", tasks[id].error)
                ELSE Settle(tasks, id, "ok", "none")
    /\ UNCHANGED <<app, history_file, emitVars, notifyVars, fs, entries, abort_handles, task_channel, merge, channel,
                   messages, mgr, naborts>>

\* A file as LoadPreview finds it: what infer::get_from_path detects
\* ("text": Some(kind) with a text/ mime type, "other": Some(kind) with
\* another one, "none": None), whether its bytes are UTF-8, and its
\* characters.
File(infer, utf8, content) ==
    [infer |-> infer, utf8 |-> utf8, content |-> content]
Detected == {"text", "other", "none"}
Contents ==
    {<<>>, <<"a">>, <<"\n">>, <<"a", "\n">>, <<"\n", "a">>, <<"\n", "\n">>,
     <<"a", "a">>, <<"a", "\n", "a">>, <<"a", "\n", "\n">>,
     <<"\n", "a", "\n">>, <<"a", "\r", "\n">>, <<"\r", "\n", "a">>}
Files ==
    {File(infer, TRUE, content) : infer \in Detected, content \in Contents}
    \cup {File(infer, FALSE, <<>>) : infer \in Detected}

\* str::lines: the lines end with "\n" or "\r\n", which are not part of
\* them; the last line needs no line ending.
RECURSIVE LinesFrom(_, _)
LinesFrom(content, line) ==
    IF content = <<>>
    THEN IF line = <<>> THEN <<>> ELSE <<line>>
    ELSE IF Head(content) = "\n"
    THEN <<IF line # <<>> /\ line[Len(line)] = "\r"
           THEN SubSeq(line, 1, Len(line) - 1)
           ELSE line>> \o LinesFrom(Tail(content), <<>>)
    ELSE LinesFrom(Tail(content), Append(line, Head(content)))
lines(content) == LinesFrom(content, <<>>)

\* Task::LoadPreview with a slip: the content is read whatever its type.
LoadPreviewStart_without_type_check(id, file) ==
    /\ Running(id)
    /\ tasks[id].task.variant = "LoadPreview"
    /\ tasks[id].pc = "start"
    /\ tasks' = IF fs[PathOf(id)] # "file"
                THEN Settle(tasks, id, "err", "FileOperationFailed")
                ELSE [tasks EXCEPT ![id].rd = file, ![id].pc = "read_to_string"]
    /\ UNCHANGED <<app, history_file, emitVars, notifyVars, fs, entries, abort_handles, task_channel, merge, channel,
                   messages, mgr, naborts>>

\* Task::LoadPreview: `infer::get_from_path(path)?` fails on a path that
\* is no readable file; a type that is detected and is not text returns
\* Ok(()); otherwise `fs::read_to_string` is awaited. `file` is the file
\* as it is found.
LoadPreviewStart(id, file) ==
    /\ Running(id)
    /\ tasks[id].task.variant = "LoadPreview"
    /\ tasks[id].pc = "start"
    /\ tasks' = IF fs[PathOf(id)] # "file"
                THEN Settle(tasks, id, "err", "FileOperationFailed")
                ELSE IF file.infer = "other"
                THEN Settle([tasks EXCEPT ![id].rd = file], id, "ok", "none")
                ELSE [tasks EXCEPT ![id].rd = file, ![id].pc = "read_to_string"]
    /\ UNCHANGED <<app, history_file, emitVars, notifyVars, fs, entries, abort_handles, task_channel, merge, channel,
                   messages, mgr, naborts>>

\* read_to_string completed: `?` returns its error (the path is gone, or
\* its bytes are not UTF-8), else the lines are collected for the send.
LoadPreviewRead(id) ==
    /\ Running(id)
    /\ ~tasks[id].aborted
    /\ tasks[id].pc = "read_to_string"
    /\ tasks' = IF fs[PathOf(id)] # "file" \/ ~tasks[id].rd.utf8
                THEN Settle(tasks, id, "err", "FileOperationFailed")
                ELSE [tasks EXCEPT ![id].cache = lines(tasks[id].rd.content),
                                   ![id].pc = "send_preview"]
    /\ UNCHANGED <<app, history_file, emitVars, notifyVars, fs, entries, abort_handles, task_channel, merge, channel,
                   messages, mgr, naborts>>

\* The send of PreviewLoaded, then Ok(()).
LoadPreviewSend(id) ==
    /\ Running(id)
    /\ tasks[id].pc = "send_preview"
    /\ HasCapacity(task_channel)
    /\ LET batch == Batch(id, <<PreviewLoaded(PathOf(id), tasks[id].cache)>>)
       IN /\ task_channel' = Append(task_channel, batch)
          /\ tasks' = Settle([tasks EXCEPT ![id].sent = Append(@, batch.msgs)],
                             id, "ok", "none")
    /\ UNCHANGED <<app, history_file, emitVars, notifyVars, fs, entries, abort_handles, merge, channel, messages, mgr,
                   naborts>>

\* Task::EmitMessages: `sender.send(messages).await`, whose error would
\* only be printed, then Ok(()).
EmitMessagesSend(id) ==
    /\ Running(id)
    /\ tasks[id].task.variant = "EmitMessages"
    /\ tasks[id].pc = "start"
    /\ HasCapacity(task_channel)
    /\ LET batch == Batch(id, tasks[id].task.payload[1])
       IN /\ task_channel' = Append(task_channel, batch)
          /\ tasks' = Settle([tasks EXCEPT ![id].sent = Append(@, batch.msgs)],
                             id, "ok", "none")
    /\ UNCHANGED <<app, history_file, emitVars, notifyVars, fs, entries, abort_handles, merge, channel, messages, mgr,
                   naborts>>

\* ------------------------------------------------------------ history file
\* A leaf of the history tree as get_paths yields it, and a line of the file.
Entry(changed_at, state, path) ==
    [changed_at |-> changed_at, state |-> state, path |-> path]
Record(changed_at, path) == [changed_at |-> changed_at, path |-> path]

\* save_filtered's loop: the records written for `history`, those of the
\* entries in state `state_filter` whose path exists.
RECURSIVE Written(_, _)
Written(history, state_filter) ==
    IF history = <<>> THEN <<>>
    ELSE LET entry == Head(history)
         IN (IF entry.state = state_filter /\ fs[entry.path] # "missing"
             THEN <<Record(entry.changed_at, entry.path)>>
             ELSE <<>>) \o Written(Tail(history), state_filter)

\* load: every record of the file becomes an entry in state Loaded. The
\* records of the model have different paths, so each is a leaf of its own.
Loaded(records) ==
    [k \in 1..Len(records) |->
        Entry(records[k].changed_at, "Loaded", records[k].path)]

\* Task::SaveHistory, `history::cache::save`: save_filtered(history, Added,
\* false) creates the directory and opens the file with create and append.
SaveHistoryOpen(id) ==
    /\ Running(id)
    /\ tasks[id].task.variant = "SaveHistory"
    /\ tasks[id].pc = "start"
    /\ history_file' = [history_file EXCEPT !.exists = TRUE]
    /\ tasks' = [tasks EXCEPT ![id].pc = "append"]
    /\ UNCHANGED <<app, emitVars, notifyVars, fs, entries, abort_handles, task_channel, merge,
                   channel, messages, mgr, naborts>>

\* save_filtered, the loop and the flush: the records of the added entries
\* go to the end of the file, wherever that is by now.
SaveHistoryAppend(id) ==
    /\ Running(id)
    /\ tasks[id].pc = "append"
    /\ history_file' = [history_file EXCEPT
                           !.records = @ \o Written(tasks[id].task.payload[1], "Added")]
    /\ tasks' = [tasks EXCEPT ![id].pc = "load"]
    /\ UNCHANGED <<app, emitVars, notifyVars, fs, entries, abort_handles, task_channel, merge,
                   channel, messages, mgr, naborts>>

\* optimize(), called by Task::OptimizeHistory and after the save of
\* Task::SaveHistory: `load(&mut history)?` fails when the file is missing
\* and reads all its records otherwise.
HistoryLoad(id) ==
    /\ Running(id)
    /\ \/ tasks[id].task.variant = "OptimizeHistory" /\ tasks[id].pc = "start"
       \/ tasks[id].pc = "load"
    /\ tasks' = IF history_file.exists
                THEN [tasks EXCEPT ![id].pc = "truncate",
                                   ![id].cache = Loaded(history_file.records)]
                ELSE Settle(tasks, id, "err", "LoadHistoryFailed")
    /\ UNCHANGED <<app, history_file, emitVars, notifyVars, fs, entries, abort_handles,
                   task_channel, merge, channel, messages, mgr, naborts>>

\* save_filtered(&history, Loaded, true): the file is opened with create
\* and truncate, which empties it.
HistoryTruncate(id) ==
    /\ Running(id)
    /\ tasks[id].pc = "truncate"
    /\ history_file' = [exists |-> TRUE, records |-> <<>>]
    /\ tasks' = [tasks EXCEPT ![id].pc = "rewrite"]
    /\ UNCHANGED <<app, emitVars, notifyVars, fs, entries, abort_handles, task_channel, merge,
                   channel, messages, mgr, naborts>>

\* save_filtered, the loop and the flush of the rewrite: the records of the
\* loaded entries whose path exists are written from the start of the file,
\* over what was put there since it was emptied; then Ok(()).
HistoryRewrite(id) ==
    /\ Running(id)
    /\ tasks[id].pc = "rewrite"
    /\ LET written == Written(tasks[id].cache, "Loaded")
           records == history_file.records
       IN history_file' = [history_file EXCEPT
                              !.records = written \o
                                  SubSeq(records, Len(written) + 1, Len(records))]
    /\ tasks' = Settle(tasks, id, "ok", "none")
    /\ UNCHANGED <<app, emitVars, notifyVars, fs, entries, abort_handles, task_channel, merge,
                   channel, messages, mgr, naborts>>

\* ------------------------------------------------- merge loop, update loop
\* Emitter::start's spawned future: the NavigateToPath send before the loop.
MergeNavigate ==
    /\ merge.pc = "navigate"
    /\ HasCapacity(channel)
    /\ channel' = Append(channel, Batch(0, <<NavigateToPath("/a")>>))
    /\ merge' = [merge EXCEPT !.pc = "select"]
    /\ UNCHANGED <<app, history_file, emitVars, notifyVars, fs, entries, abort_handles, tasks, task_channel, messages,
                   mgr, naborts>>

\* notify::Result<Event>, as far as handle_notify_event and the select!
\* pattern tell the results apart.
NotifyOk(kind, paths) == [ok |-> TRUE, kind |-> kind, paths |-> paths]
NotifyErr == [ok |-> FALSE, kind |-> "Error", paths |-> <<>>]
EventKinds == {"AccessCloseWrite", "Create", "RenameBoth", "Remove", "Other"}

\* An event whose need_rescan() is true.
NotifyRescan(kind, paths) ==
    [ok |-> TRUE, kind |-> kind, paths |-> paths, rescan |-> TRUE]

\* The kinds of event that the last arm of handle_notify_event takes:
\* EventKind::Any, the Access kinds but Close(Write), the Modify kinds but
\* Name(Both), EventKind::Other.
DroppedKinds ==
    {"Any", "AccessRead", "AccessOpen", "AccessCloseRead", "AccessOther",
     "ModifyAny", "ModifyData", "ModifyMetadata", "ModifyNameFrom",
     "ModifyNameTo", "ModifyOther", "Other"}

Some(msgs) == [some |-> TRUE, messages |-> msgs]
None == [some |-> FALSE, messages |-> <<>>]

\* handle_notify_event with a slip: a create event yields one message with
\* all its paths.
handle_notify_event_one_message(event) ==
    LET paths == event.paths
    IN CASE event.kind = "AccessCloseWrite" ->
              Some([k \in 1..Len(paths) |-> PathsWriteFinished(<<paths[k]>>)])
         [] event.kind = "Create" -> Some(<<PathsAdded(paths)>>)
         [] event.kind = "RenameBoth" ->
              IF Len(paths) = 2
              THEN Some(<<PathRemoved(paths[1]), PathsAdded(<<paths[2]>>)>>)
              ELSE None
         [] event.kind = "Remove" ->
              Some([k \in 1..Len(paths) |-> PathRemoved(paths[k])])
         [] OTHER -> None

\* handle_notify_event: the messages of a file system event, if any.
handle_notify_event_any_count(event) ==
    LET paths == event.paths
    IN CASE event.kind = "AccessCloseWrite" ->
              Some([k \in 1..Len(paths) |-> PathsWriteFinished(<<paths[k]>>)])
         [] event.kind = "Create" ->
              Some([k \in 1..Len(paths) |-> PathsAdded(<<paths[k]>>)])
         [] event.kind = "RenameBoth" ->
              IF Len(paths) >= 2
              THEN Some(<<PathRemoved(paths[1]), PathsAdded(<<paths[2]>>)>>)
              ELSE None
         [] event.kind = "Remove" ->
              Some([k \in 1..Len(paths) |-> PathRemoved(paths[k])])
         [] OTHER -> None

handle_notify_event(event) ==
    LET paths == event.paths
    IN CASE event.kind = "AccessCloseWrite" ->
              Some([k \in 1..Len(paths) |-> PathsWriteFinished(<<paths[k]>>)])
         [] event.kind = "Create" ->
              Some([k \in 1..Len(paths) |-> PathsAdded(<<paths[k]>>)])
         [] event.kind = "RenameBoth" ->
              IF Len(paths) = 2
              THEN Some(<<PathRemoved(paths[1]), PathsAdded(<<paths[2]>>)>>)
              ELSE None
         [] event.kind = "Remove" ->
              Some([k \in 1..Len(paths) |-> PathRemoved(paths[k])])
         [] OTHER -> None

\* The watcher's callback: `watcher_sender.send(res)` on the unbounded
\* channel. Each result carries its number, for the properties only.
Notify(result) ==
    /\ nnotify < MaxNotify
    /\ nnotify' = nnotify + 1
    /\ notify_channel' = Append(notify_channel,
                                [seq |-> nnotify + 1, result |-> result])
    /\ UNCHANGED <<app, history_file, emitVars, fs, entries, abort_handles, tasks, task_channel,
                   merge, channel, messages, mgr, naborts>>

\* select!: notify_event completed. Some(Ok(event)) runs the branch: the
\* messages of the event, if any, are to be sent. A result that does not
\* match the pattern disables the branch, and this select! goes on waiting
\* for task_event alone.
MergeNotifyEvent ==
    /\ merge.pc = "select"
    /\ notify_channel # <<>>
    /\ LET head == Head(notify_channel)
           out == handle_notify_event(head.result)
       IN merge' =
            IF ~head.result.ok THEN [merge EXCEPT !.pc = "select_task"]
            ELSE IF out.some
            THEN [pc |-> "send", held |-> Numbered(-2, head.seq, out.messages)]
            ELSE merge
    /\ notify_channel' = Tail(notify_channel)
    /\ UNCHANGED <<app, history_file, emitVars, nnotify, fs, entries, abort_handles, tasks,
                   task_channel, channel, messages, mgr, naborts>>

\* The task branch with a slip: the loop ends once a task has failed.
MergeTaskEvent_until_error ==
    /\ merge.pc \in {"select", "select_task"}
    /\ \A id \in 1..Len(tasks) : tasks[id].result # "err"
    /\ task_channel # <<>>
    /\ merge' = [pc |-> "send", held |-> Head(task_channel)]
    /\ task_channel' = Tail(task_channel)
    /\ UNCHANGED <<app, history_file, emitVars, notifyVars, fs, entries, abort_handles, tasks, channel, messages, mgr,
                   naborts>>

\* select!: `event = task_event` took a batch off the completion channel.
MergeTaskEvent ==
    /\ merge.pc \in {"select", "select_task"}
    /\ task_channel # <<>>
    /\ merge' = [pc |-> "send", held |-> Head(task_channel)]
    /\ task_channel' = Tail(task_channel)
    /\ UNCHANGED <<app, history_file, emitVars, notifyVars, fs, entries, abort_handles, tasks, channel, messages, mgr,
                   naborts>>

\* The send with a slip: the loop goes back to the send before it.
MergeSend_restarts ==
    /\ merge.pc = "send"
    /\ HasCapacity(channel)
    /\ channel' = Append(channel, merge.held)
    /\ merge' = [pc |-> "navigate", held |-> Batch(0, <<>>)]
    /\ UNCHANGED <<app, history_file, emitVars, notifyVars, fs, entries, abort_handles, tasks, task_channel, messages,
                   mgr, naborts>>

\* `internal_sender.send(event).await`
MergeSend ==
    /\ merge.pc = "send"
    /\ HasCapacity(channel)
    /\ channel' = Append(channel, merge.held)
    /\ merge' = [pc |-> "select", held |-> Batch(0, <<>>)]
    /\ UNCHANGED <<app, history_file, emitVars, notifyVars, fs, entries, abort_handles, tasks, task_channel, messages,
                   mgr, naborts>>

\* The update loop: `receiver.recv().await`. It is the caller of the
\* TaskManager, so it receives only between two calls.
Recv ==
    /\ Ready
    /\ channel # <<>>
    /\ messages' = Head(channel)
    /\ channel' = Tail(channel)
    /\ UNCHANGED <<app, history_file, emitVars, notifyVars, fs, entries, abort_handles, tasks, task_channel, merge, mgr,
                   naborts>>

\* ------------------------------------------------------------ key bindings
Modes == {"Command", "Insert", "Navigation", "Normal"}

\* Mode::default()
ModeDefault == "Navigation"

\* Key::new(code, modifiers)
Key(code, modifiers) == [code |-> code, modifiers |-> modifiers]
Plain(code) == Key(code, {})
Shift(code) == Key(code, {"Shift"})
Ctrl(code) == Key(code, {"Ctrl"})

\* enum Binding
BindMessage(message) == [kind |-> "Message", message |-> message]
BindMode(mode) == [kind |-> "Mode", mode |-> mode]
BindMotion(direction) == [kind |-> "Motion", direction |-> direction]
BindRepeat(digit) == [kind |-> "Repeat", digit |-> digit]
BindRepeatOrMotion(digit, direction) ==
    [kind |-> "RepeatOrMotion", digit |-> digit, direction |-> direction]
BindModeAndTextModification(mode, modification) ==
    [kind |-> "ModeAndTextModification", mode |-> mode,
     modification |-> modification]

\* The literal messages of the bindings.
Modification(modification) == [type |-> "Modification", arg |-> modification]
MoveViewPort(direction) == [type |-> "MoveViewPort", arg |-> direction]
ExecuteCommand == [type |-> "ExecuteCommand", arg |-> ""]
SelectParent == [type |-> "SelectParent", arg |-> ""]
SelectCurrent == [type |-> "SelectCurrent", arg |-> ""]

Map(keys, binding) == [keys |-> keys, binding |-> binding]

\* The digit keys '1'..'9' bound to Binding::Repeat.
DigitCodes == <<"1", "2", "3", "4", "5", "6", "7", "8", "9">>

\* The digit keys all bound to Binding::Repeat(1).
RepeatDigits_all_one == {Map(<<Plain(DigitCodes[d])>>, BindRepeat(1)) : d \in 1..9}

RepeatDigits == {Map(<<Plain(DigitCodes[d])>>, BindRepeat(d)) : d \in 1..9}

\* The bindings of Command and Insert mode with the digits bound as in the
\* other modes.
TextMappings_with_digits ==
    {Map(<<Plain("Backspace")>>,
         BindMessage(Modification("DeleteCharBeforeCursor"))),
     Map(<<Plain("Enter")>>, BindMessage(ExecuteCommand)),
     Map(<<Plain("Delete")>>, BindMessage(Modification("DeleteCharOnCursor"))),
     Map(<<Plain("Left")>>, BindMotion("Left")),
     Map(<<Plain("Right")>>, BindMotion("Right"))} \cup RepeatDigits

\* The bindings Command and Insert mode share but for Esc.
TextMappings ==
    {Map(<<Plain("Backspace")>>,
         BindMessage(Modification("DeleteCharBeforeCursor"))),
     Map(<<Plain("Enter")>>, BindMessage(ExecuteCommand)),
     Map(<<Plain("Delete")>>, BindMessage(Modification("DeleteCharOnCursor"))),
     Map(<<Plain("Left")>>, BindMotion("Left")),
     Map(<<Plain("Right")>>, BindMotion("Right"))}

\* The shared bindings with the directions of `gg` and `G` exchanged.
ViewPortMappings_gg_bottom ==
    {Map(<<Ctrl("d")>>, BindMessage(MoveViewPort("HalfPageDown"))),
     Map(<<Ctrl("u")>>, BindMessage(MoveViewPort("HalfPageUp"))),
     Map(<<Plain("z"), Plain("b")>>, BindMessage(MoveViewPort("BottomOnCursor"))),
     Map(<<Plain("z"), Plain("t")>>, BindMessage(MoveViewPort("TopOnCursor"))),
     Map(<<Plain("z"), Plain("z")>>, BindMessage(MoveViewPort("CenterOnCursor"))),
     Map(<<Shift("g")>>, BindMotion("Top")),
     Map(<<Plain("g"), Plain("g")>>, BindMotion("Bottom")),
     Map(<<Plain("j")>>, BindMotion("Down")),
     Map(<<Plain("k")>>, BindMotion("Up")),
     Map(<<Plain(":")>>, BindMode("Command"))}

\* The shared bindings with the motion to the top bound to a single `g`.
ViewPortMappings_single_g ==
    {Map(<<Ctrl("d")>>, BindMessage(MoveViewPort("HalfPageDown"))),
     Map(<<Ctrl("u")>>, BindMessage(MoveViewPort("HalfPageUp"))),
     Map(<<Plain("z"), Plain("b")>>, BindMessage(MoveViewPort("BottomOnCursor"))),
     Map(<<Plain("z"), Plain("t")>>, BindMessage(MoveViewPort("TopOnCursor"))),
     Map(<<Plain("z"), Plain("z")>>, BindMessage(MoveViewPort("CenterOnCursor"))),
     Map(<<Shift("g")>>, BindMotion("Bottom")),
     Map(<<Plain("g")>>, BindMotion("Top")),
     Map(<<Plain("j")>>, BindMotion("Down")),
     Map(<<Plain("k")>>, BindMotion("Up")),
     Map(<<Plain(":")>>, BindMode("Command"))}

\* The bindings Navigation and Normal mode share.
ViewPortMappings ==
    {Map(<<Ctrl("d")>>, BindMessage(MoveViewPort("HalfPageDown"))),
     Map(<<Ctrl("u")>>, BindMessage(MoveViewPort("HalfPageUp"))),
     Map(<<Plain("z"), Plain("b")>>, BindMessage(MoveViewPort("BottomOnCursor"))),
     Map(<<Plain("z"), Plain("t")>>, BindMessage(MoveViewPort("TopOnCursor"))),
     Map(<<Plain("z"), Plain("z")>>, BindMessage(MoveViewPort("CenterOnCursor"))),
     Map(<<Shift("g")>>, BindMotion("Bottom")),
     Map(<<Plain("g"), Plain("g")>>, BindMotion("Top")),
     Map(<<Plain("j")>>, BindMotion("Down")),
     Map(<<Plain("k")>>, BindMotion("Up")),
     Map(<<Plain(":")>>, BindMode("Command"))}

\* Normal mode's `0` bound as it is in Navigation mode.
NormalZero_repeat == Map(<<Plain("0")>>, BindRepeat(0))

\* Normal mode's `0`.
NormalZero == Map(<<Plain("0")>>, BindRepeatOrMotion(0, "LineStart"))

\* Normal mode's `o` and `O` bound to the change of mode alone.
NormalNewLines_mode_only ==
    {Map(<<Plain("o")>>, BindMode("Insert")),
     Map(<<Shift("o")>>, BindMode("Insert"))}

\* Normal mode's `o` and `O`.
NormalNewLines ==
    {Map(<<Plain("o")>>,
         BindModeAndTextModification("Insert", "InsertNewLineUnder")),
     Map(<<Shift("o")>>,
         BindModeAndTextModification("Insert", "InsertNewLineAbove"))}

\* KeyMap::default: the mappings of each mode.
KeyMap(mode) ==
    CASE mode = "Command" ->
            TextMappings \cup {Map(<<Plain("Esc")>>, BindMode(ModeDefault))}
      [] mode = "Insert" ->
            TextMappings \cup {Map(<<Plain("Esc")>>, BindMode("Normal"))}
      [] mode = "Navigation" ->
            ViewPortMappings \cup RepeatDigits \cup
            {Map(<<Plain("Esc")>>, BindMode("Navigation")),
             Map(<<Plain("0")>>, BindRepeat(0)),
             Map(<<Plain("h")>>, BindMessage(SelectParent)),
             Map(<<Plain("l")>>, BindMessage(SelectCurrent)),
             Map(<<Ctrl("n")>>, BindMode("Normal"))}
      [] mode = "Normal" ->
            ViewPortMappings \cup RepeatDigits \cup
            {Map(<<Plain("Esc")>>, BindMode("Navigation")),
             NormalZero,
             Map(<<Plain("$")>>, BindMotion("LineEnd")),
             Map(<<Plain("d"), Plain("d")>>,
                 BindMessage(Modification("DeleteLineOnCursor"))),
             Map(<<Plain("h")>>, BindMotion("Left")),
             Map(<<Plain("l")>>, BindMotion("Right"))} \cup NormalNewLines

\* ------------------------------------------------------------ key resolver
\* KeyTree: the node of `mode` reached by `keys`, its binding, its children.
IsPrefix(keys, of) == Len(keys) <= Len(of) /\ SubSeq(of, 1, Len(keys)) = keys
HasNode(mode, keys) == \E m \in KeyMap(mode) : IsPrefix(keys, m.keys)
HasChildren(mode, keys) ==
    \E m \in KeyMap(mode) : IsPrefix(keys, m.keys) /\ Len(m.keys) > Len(keys)
BindingOf(mode, keys) == (CHOOSE m \in KeyMap(mode) : m.keys = keys).binding

\* The messages of a resolved binding; a count of 0 is no accumulated count.
MoveCursor(count, direction) ==
    [type |-> "MoveCursor", count |-> count, direction |-> direction]
ChangeMode(from, to) == [type |-> "ChangeMode", from |-> from, to |-> to]
Counted(count) == IF count = 0 THEN 1 ELSE count

ResolveBinding(mode, binding, count) ==
    CASE binding.kind = "Message" ->
            <<binding.message @@ [count |-> Counted(count)]>>
      [] binding.kind = "Motion" ->
            <<MoveCursor(Counted(count), binding.direction)>>
      [] binding.kind = "RepeatOrMotion" ->
            <<MoveCursor(Counted(count), binding.direction)>>
      [] binding.kind = "Mode" -> <<ChangeMode(mode, binding.mode)>>
      [] binding.kind = "ModeAndTextModification" ->
            <<ChangeMode(mode, binding.mode), Modification(binding.modification)>>

\* Whether the binding is a digit that extends the repeat count.
ExtendsCount(binding, count) ==
    \/ binding.kind = "Repeat"
    \/ binding.kind = "RepeatOrMotion" /\ count > 0

\* The lookup of the pending sequence from its position `from` on, with the
\* count accumulated by the digits before it: "pending", "unmatched", or
\* the messages of the binding that resolves.
RECURSIVE Lookup(_, _, _, _, _)
Lookup(mode, keys, from, to, count) ==
    LET chord == SubSeq(keys, from, to)
    IN IF from > Len(keys) \/ to > Len(keys) THEN [kind |-> "pending"]
       ELSE IF ~HasNode(mode, chord) THEN [kind |-> "unmatched"]
       ELSE IF HasChildren(mode, chord)
       THEN Lookup(mode, keys, from, to + 1, count)
       ELSE LET binding == BindingOf(mode, chord)
            IN IF ExtendsCount(binding, count)
               THEN Lookup(mode, keys, to + 1, to + 1, count * 10 + binding.digit)
               ELSE [kind |-> "resolved",
                     messages |-> ResolveBinding(mode, binding, count)]

\* Modes whose unmatched keys are literal text input.
InsertsText(mode) == mode \in {"Insert", "Command"}

\* add_and_resolve that keeps an unmatched sequence pending.
add_and_resolve_keeps_unmatched(r, key) ==
    LET keys == Append(r.buffer, key)
        found == Lookup(r.mode, keys, 1, 1, 0)
    IN CASE found.kind = "pending" ->
              [resolver |-> [r EXCEPT !.buffer = keys], messages |-> <<>>]
         [] found.kind = "unmatched" ->
              [resolver |-> [r EXCEPT !.buffer = keys],
               messages |-> IF InsertsText(r.mode)
                            THEN <<Modification(<<"Insert", key>>)>>
                            ELSE <<>>]
         [] found.kind = "resolved" ->
              [resolver |-> [r EXCEPT !.buffer = <<>>],
               messages |-> found.messages]

\* MessageResolver::add_and_resolve: the resolver afterwards and the messages.
add_and_resolve(r, key) ==
    LET keys == Append(r.buffer, key)
        found == Lookup(r.mode, keys, 1, 1, 0)
    IN CASE found.kind = "pending" ->
              [resolver |-> [r EXCEPT !.buffer = keys], messages |-> <<>>]
         [] found.kind = "unmatched" ->
              [resolver |-> [r EXCEPT !.buffer = <<>>],
               messages |-> IF InsertsText(r.mode)
                            THEN <<Modification(<<"Insert", key>>)>>
                            ELSE <<>>]
         [] found.kind = "resolved" ->
              [resolver |-> [r EXCEPT !.buffer = <<>>],
               messages |-> found.messages]

\* ------------------------------------------------------- terminal listener
\* The terminal events of the model: keys, a resize, and an event that
\* handle_crossterm_event maps to None.
Resize == [type |-> "Resize", arg |-> <<80, 24>>]
TerminalEvents ==
    {[kind |-> "Key", key |-> Plain("g")],
     [kind |-> "Key", key |-> Plain("2")],
     [kind |-> "Key", key |-> Plain("j")],
     [kind |-> "Resize"],
     [kind |-> "FocusLost"]}

\* A batch that comes from terminal input carries src -1.
FromTerminal(seq, msgs) == Numbered(-1, seq, msgs)
NoBatch == Batch(0, <<>>)

\* start_crossterm_listener: a new listener at its select!.
\* nread counts the terminal events the listener has read; key is the key
\* it is resolving, `at` the number of the terminal event it is handling.
NoKey == Key("", {})
Listener ==
    [pc |-> "select", held |-> NoBatch, rx |-> "open", nread |-> 0,
     key |-> NoKey, at |-> 0]

\* select!, the event branch: handle_crossterm_event up to its first await.
\* A key goes on to `resolver_mutex.lock().await`; a resize is a batch of
\* its own; other events are None.
ListenerEvent(l, event) ==
    /\ listeners[l].pc = "select"
    /\ nevents' = nevents + 1
    /\ listeners' =
         CASE event.kind = "Key" ->
                [listeners EXCEPT ![l].pc = "lock",
                                  ![l].nread = @ + 1,
                                  ![l].at = nevents + 1,
                                  ![l].key = event.key]
           [] event.kind = "Resize" ->
                [listeners EXCEPT ![l].pc = "send",
                                  ![l].nread = @ + 1,
                                  ![l].at = nevents + 1,
                                  ![l].held = FromTerminal(nevents + 1, <<Resize>>)]
           [] OTHER -> [listeners EXCEPT ![l].nread = @ + 1]
    /\ UNCHANGED <<app, history_file, lock, notifyVars, fs, entries, abort_handles, tasks,
                   task_channel, merge, channel, messages, mgr, naborts,
                   resolver, cancellation, emitter>>

\* `resolver_mutex.lock().await` returns the guard once the Mutex is free.
ListenerLock(l) ==
    /\ listeners[l].pc = "lock"
    /\ lock = 0
    /\ lock' = l
    /\ listeners' = [listeners EXCEPT ![l].pc = "resolve"]
    /\ UNCHANGED <<app, history_file, notifyVars, fs, entries, abort_handles, tasks,
                   task_channel, merge, channel, messages, mgr, naborts,
                   resolver, cancellation, emitter, nevents>>

\* The resolution with the guard kept by the caller, beyond the return.
ListenerResolve_keeps_guard(l) ==
    /\ listeners[l].pc = "resolve"
    /\ lock = l
    /\ LET done == add_and_resolve(resolver, listeners[l].key)
       IN /\ resolver' = done.resolver
          /\ listeners' = [listeners EXCEPT
                             ![l].pc = "send",
                             ![l].key = NoKey,
                             ![l].held = FromTerminal(listeners[l].at,
                                                      done.messages)]
    /\ UNCHANGED <<app, history_file, lock, notifyVars, fs, entries, abort_handles, tasks,
                   task_channel, merge, channel, messages, mgr, naborts,
                   cancellation, emitter, nevents>>

\* `resolver.add_and_resolve(key)` and `return Some(messages)`, which drops
\* the guard: the messages, even none, are a batch.
ListenerResolve(l) ==
    /\ listeners[l].pc = "resolve"
    /\ lock = l
    /\ LET done == add_and_resolve(resolver, listeners[l].key)
       IN /\ resolver' = done.resolver
          /\ listeners' = [listeners EXCEPT
                             ![l].pc = "send",
                             ![l].key = NoKey,
                             ![l].held = FromTerminal(listeners[l].at,
                                                      done.messages)]
    /\ lock' = 0
    /\ UNCHANGED <<app, history_file, notifyVars, fs, entries, abort_handles, tasks,
                   task_channel, merge, channel, messages, mgr, naborts,
                   cancellation, emitter, nevents>>

\* `let _ = sender.send(message).await`
ListenerSend(l) ==
    /\ listeners[l].pc = "send"
    /\ HasCapacity(channel)
    /\ channel' = Append(channel, listeners[l].held)
    /\ listeners' = [listeners EXCEPT ![l].pc = "select", ![l].held = NoBatch,
                                      ![l].at = 0]
    /\ UNCHANGED <<app, history_file, lock, notifyVars, fs, entries, abort_handles, tasks,
                   task_channel, merge,
                   messages, mgr, naborts, resolver, cancellation, emitter,
                   nevents>>

\* select!, the cancellation branch: `sender.send(true)` and `break`. A
\* receiver whose sender was dropped yields Err, which the pattern
\* `Ok(sender)` does not match: the branch is disabled and the listener
\* goes on with the event branch.
ListenerCancelled(l) ==
    /\ listeners[l].pc = "select"
    /\ listeners[l].rx = "requested"
    /\ listeners' = [listeners EXCEPT ![l].pc = "stopped", ![l].rx = "acknowledged"]
    /\ UNCHANGED <<app, history_file, lock, notifyVars, fs, entries, abort_handles, tasks,
                   task_channel, merge,
                   channel, messages, mgr, naborts, resolver, cancellation,
                   emitter, nevents>>

\* ---------------------------------------------------------- Emitter calls
\* suspend() that reads self.cancellation without taking it.
suspend_without_take ==
    /\ Ready
    /\ emitter.nsuspends < MaxSuspends
    /\ IF cancellation # 0
       THEN /\ listeners' = [listeners EXCEPT ![cancellation].rx = "requested"]
            /\ emitter' = [emitter EXCEPT !.pc = "suspend", !.ret = "none",
                                          !.awaits = cancellation,
                                          !.nsuspends = @ + 1]
       ELSE /\ listeners' = listeners
            /\ emitter' = [emitter EXCEPT !.ret = "Ok(false)",
                                          !.nsuspends = @ + 1]
    /\ cancellation' = cancellation
    /\ UNCHANGED <<app, history_file, lock, notifyVars, fs, entries, abort_handles, tasks,
                   task_channel, merge,
                   channel, messages, mgr, naborts, resolver, nevents>>

\* suspend(): `cancellation.take()`; Some: the acknowledgement sender is sent
\* and `receiver.await` begins; None: Ok(false).
suspend ==
    /\ Ready
    /\ emitter.nsuspends < MaxSuspends
    /\ IF cancellation # 0
       THEN /\ listeners' = [listeners EXCEPT ![cancellation].rx = "requested"]
            /\ emitter' = [emitter EXCEPT !.pc = "suspend", !.ret = "none",
                                          !.awaits = cancellation,
                                          !.nsuspends = @ + 1]
       ELSE /\ listeners' = listeners
            /\ emitter' = [emitter EXCEPT !.ret = "Ok(false)",
                                          !.nsuspends = @ + 1]
    /\ cancellation' = 0
    /\ UNCHANGED <<app, history_file, lock, notifyVars, fs, entries, abort_handles, tasks,
                   task_channel, merge,
                   channel, messages, mgr, naborts, resolver, nevents>>

\* suspend(): `receiver.await` yields the listener's `true`.
SuspendReturn ==
    /\ emitter.pc = "suspend"
    /\ listeners[emitter.awaits].rx = "acknowledged"
    /\ emitter' = [emitter EXCEPT !.pc = "idle", !.ret = "Ok(true)"]
    /\ UNCHANGED <<app, history_file, lock, notifyVars, fs, entries, abort_handles, tasks,
                   task_channel, merge,
                   channel, messages, mgr, naborts, resolver, cancellation,
                   listeners, nevents>>

\* resume() that starts the listener on a new MessageResolver::default().
resume_with_default_resolver ==
    /\ Ready
    /\ emitter.nresumes < MaxResumes
    /\ listeners' = Append(IF cancellation # 0
                           THEN [listeners EXCEPT ![cancellation].rx = "closed"]
                           ELSE listeners,
                           Listener)
    /\ cancellation' = Len(listeners) + 1
    /\ emitter' = [emitter EXCEPT !.nresumes = @ + 1]
    /\ resolver' = [mode |-> ModeDefault, buffer |-> <<>>]
    /\ UNCHANGED <<app, history_file, lock, notifyVars, fs, entries, abort_handles, tasks,
                   task_channel, merge,
                   channel, messages, mgr, naborts, nevents>>

\* resume(): a new oneshot replaces self.cancellation (a sender still held
\* there is dropped) and a new listener is spawned on the shared resolver.
resume ==
    /\ Ready
    /\ emitter.nresumes < MaxResumes
    /\ listeners' = Append(IF cancellation # 0
                           THEN [listeners EXCEPT ![cancellation].rx = "closed"]
                           ELSE listeners,
                           Listener)
    /\ cancellation' = Len(listeners) + 1
    /\ emitter' = [emitter EXCEPT !.nresumes = @ + 1]
    /\ UNCHANGED <<app, history_file, lock, notifyVars, fs, entries, abort_handles, tasks,
                   task_channel, merge,
                   channel, messages, mgr, naborts, resolver, nevents>>

\* set_current_mode that assigns the mode without waiting for the lock.
set_current_mode_without_lock(mode) ==
    /\ Ready
    /\ resolver' = [resolver EXCEPT !.mode = mode]
    /\ UNCHANGED <<app, history_file, lock, notifyVars, fs, entries, abort_handles, tasks,
                   task_channel, merge, channel, messages, mgr, naborts,
                   cancellation, listeners, emitter, nevents>>

\* set_current_mode(mode), and the update loop's PostRenderAction::ModeChanged:
\* `resolver.lock().await`, then `resolver.mode = mode`; the guard is dropped
\* on return.
set_current_mode(mode) ==
    /\ Ready
    /\ lock = 0
    /\ resolver' = [resolver EXCEPT !.mode = mode]
    /\ UNCHANGED <<app, history_file, lock, notifyVars, fs, entries, abort_handles, tasks,
                   task_channel, merge, channel, messages, mgr, naborts,
                   cancellation, listeners, emitter, nevents>>

\* ----------------------------------------------------------- specification
InitTasks ==
    /\ fs = [p \in Paths |-> IF p = "/a" THEN "dir" ELSE "missing"]
    /\ abort_handles = <<>>
    /\ tasks = <<>>
    /\ task_channel = <<>>
    /\ merge = [pc |-> "navigate", held |-> Batch(0, <<>>)]
    /\ channel = <<>>
    /\ messages = Batch(0, <<>>)
    /\ mgr = [pc |-> "idle", task |-> Task("none", <<>>), id |-> 0,
              errors |-> <<>>, ret |-> "none"]
    /\ naborts = 0
    /\ resolver = [mode |-> ModeDefault, buffer |-> <<>>]
    /\ cancellation = 1
    /\ listeners = <<Listener>>
    /\ emitter = [pc |-> "idle", ret |-> "none", awaits |-> 0,
                  nsuspends |-> 0, nresumes |-> 0]
    /\ nevents = 0
    /\ lock = 0
    /\ notify_channel = <<>>
    /\ nnotify = 0
    /\ history_file = NoFile
    /\ app = [mode |-> ModeDefault, pc |-> "recv", actions |-> <<>>,
              watched |-> {}, unwatched |-> {}, n |-> 0,
              last |-> "/a"]

Init ==
    /\ InitTasks
    /\ entries = DirEntries

Next ==
    \/ \E task \in TaskValues : RunSpawn(task)
    \/ RunTrack
    \/ \E task \in TaskValues : abort(task)
    \/ FinishingDrain
    \/ \E id \in 1..Len(tasks) : FinishingJoin(id)
    \/ FinishingReturn
    \/ \E id \in 1..Len(tasks) : TaskCancel(id)
    \/ \E id \in 1..Len(tasks) : EnumerateStart(id)
    \/ \E id \in 1..Len(tasks) : EnumerateReadDir(id)
    \/ \E id \in 1..Len(tasks) : EnumerateNextEntry(id)
    \/ \E id \in 1..Len(tasks) : EnumerateFinal(id)
    \/ \E id \in 1..Len(tasks) : AddPathStart(id)
    \/ \E id \in 1..Len(tasks) : AddPathWrite(id)
    \/ \E id \in 1..Len(tasks) : AddPathDone(id)
    \/ MergeNavigate
    \/ MergeTaskEvent
    \/ MergeSend
    \/ Recv

\* The task orchestrator under the update loop's calls. The directory /a is
\* smaller than the first batch threshold here, so an enumeration sends its
\* final batch only; SpecEnumerate covers the incremental sends.
Spec == Init /\ [][Next]_vars

\* One enumeration of /a, for every size of the directory that lies at or
\* next to a batch threshold; the update loop may abort it.
DirSizes ==
    {0, 1, InitialCacheSize - 1, InitialCacheSize, InitialCacheSize + 1,
     2 * InitialCacheSize - 1, 2 * InitialCacheSize, 2 * InitialCacheSize + 1,
     4 * InitialCacheSize - 1, 4 * InitialCacheSize, MaxEntries}

InitEnumerate ==
    /\ InitTasks
    /\ entries \in DirSizes

NextEnumerate ==
    \/ (tasks = <<>> /\ RunSpawn(EnumerateDirectory("/a")))
    \/ RunTrack
    \/ abort(EnumerateDirectory("/a"))
    \/ \E id \in 1..Len(tasks) : TaskCancel(id)
    \/ \E id \in 1..Len(tasks) : EnumerateStart(id)
    \/ \E id \in 1..Len(tasks) : EnumerateReadDir(id)
    \/ \E id \in 1..Len(tasks) : EnumerateNextEntry(id)
    \/ \E id \in 1..Len(tasks) : EnumerateSend(id)
    \/ \E id \in 1..Len(tasks) : EnumerateFinal(id)
    \/ MergeNavigate
    \/ MergeTaskEvent
    \/ MergeSend
    \/ Recv

SpecEnumerate == InitEnumerate /\ [][NextEnumerate]_vars

\* The modes the update loop changes to in the model.
ModeChanges == {"Navigation", "Normal"}

\* The multiplexer's terminal side under the update loop's calls.
NextEmitter ==
    \/ \E l \in 1..Len(listeners) : \E event \in TerminalEvents :
          nevents < MaxEvents /\ ListenerEvent(l, event)
    \/ \E l \in 1..Len(listeners) : ListenerLock(l)
    \/ \E l \in 1..Len(listeners) : ListenerResolve(l)
    \/ \E l \in 1..Len(listeners) : ListenerSend(l)
    \/ \E l \in 1..Len(listeners) : ListenerCancelled(l)
    \/ suspend
    \/ SuspendReturn
    \/ resume
    \/ \E mode \in ModeChanges : set_current_mode(mode)
    \/ MergeNavigate
    \/ Recv

SpecEmitter == Init /\ [][NextEmitter]_vars

\* The runtime polls every spawned future that can go on: each listener's
\* steps, the merge loop's first send, and the wake-up of suspend(); a
\* select! with both branches ready takes the cancellation branch again
\* and again. The update loop receives whenever it is between two calls.
FairEmitter ==
    /\ \A l \in 1..(MaxResumes + 1) :
          /\ WF_vars(l \in 1..Len(listeners) /\ ListenerLock(l))
          /\ WF_vars(l \in 1..Len(listeners) /\ ListenerResolve(l))
          /\ WF_vars(l \in 1..Len(listeners) /\ ListenerSend(l))
          /\ SF_vars(l \in 1..Len(listeners) /\ ListenerCancelled(l))
    /\ WF_vars(SuspendReturn)
    /\ WF_vars(MergeNavigate)
    /\ WF_vars(Recv)

SpecEmitterFair == Init /\ [][NextEmitter]_vars /\ FairEmitter

\* The results the watcher sends in the model: every kind of event, the
\* rename of both names with 0 to 3 paths, and an error.
NotifyResults ==
    {NotifyOk(kind, <<"/a">>) : kind \in EventKinds}
    \cup {NotifyOk("RenameBoth", paths) :
            paths \in {<<>>, <<"/a", "/b">>, <<"/a", "/b", "/a">>}}
    \cup {NotifyErr}

\* The merge loop between its sources and the outbound channel: the watcher,
\* one enumeration and the terminal listener's resize events.
NextMerge ==
    \/ \E result \in NotifyResults : Notify(result)
    \/ tasks = <<>> /\ RunSpawn(EnumerateDirectory("/a"))
    \/ RunTrack
    \/ \E id \in 1..Len(tasks) : EnumerateStart(id)
    \/ \E id \in 1..Len(tasks) : EnumerateReadDir(id)
    \/ \E id \in 1..Len(tasks) : EnumerateNextEntry(id)
    \/ \E id \in 1..Len(tasks) : EnumerateFinal(id)
    \/ \E l \in 1..Len(listeners) :
          nevents < MaxEvents /\ ListenerEvent(l, [kind |-> "Resize"])
    \/ \E l \in 1..Len(listeners) : ListenerSend(l)
    \/ MergeNavigate
    \/ MergeNotifyEvent
    \/ MergeTaskEvent
    \/ MergeSend
    \/ Recv

SpecMerge == Init /\ [][NextMerge]_vars

\* The scheduling the runtime guarantees: a future that can make progress is
\* polled; select! starts with a branch chosen at random, so a branch that
\* is ready again and again is taken; Sender::send queues for the free slot
\* in order of arrival, so a sender that waits gets it; and the update loop
\* keeps receiving. What the watcher, the terminal and the caller of run()
\* do is not constrained.
FairMerge ==
    /\ WF_vars(RunTrack)
    /\ WF_vars(\E id \in 1..Len(tasks) : EnumerateStart(id))
    /\ WF_vars(\E id \in 1..Len(tasks) : EnumerateReadDir(id))
    /\ WF_vars(\E id \in 1..Len(tasks) : EnumerateNextEntry(id))
    /\ SF_vars(\E id \in 1..Len(tasks) : EnumerateFinal(id))
    /\ SF_vars(\E l \in 1..Len(listeners) : ListenerSend(l))
    /\ SF_vars(MergeNavigate)
    /\ SF_vars(MergeNotifyEvent)
    /\ SF_vars(MergeTaskEvent)
    /\ SF_vars(MergeSend)
    /\ WF_vars(Recv)

SpecMergeFair == Init /\ [][NextMerge]_vars /\ FairMerge

\* The producers of the outbound channel at once: an enumeration of a
\* directory large enough for four batches behind the merge loop, and the
\* terminal listener, with a consumer that may lag behind.
InitBackpressure ==
    /\ InitTasks
    /\ entries = MaxEntries

NextBackpressure ==
    \/ NextEnumerate
    \/ \E l \in 1..Len(listeners) :
          nevents < MaxEvents /\ ListenerEvent(l, [kind |-> "Resize"])
    \/ \E l \in 1..Len(listeners) : ListenerSend(l)

SpecBackpressure == InitBackpressure /\ [][NextBackpressure]_vars

\* One enumeration of a directory with two incremental batches, which the
\* update loop may abort, and the shutdown.
InitCancel ==
    /\ InitTasks
    /\ entries = 2 * InitialCacheSize + 1

NextCancel ==
    \/ (tasks = <<>> /\ RunSpawn(EnumerateDirectory("/a")))
    \/ RunTrack
    \/ abort(EnumerateDirectory("/a"))
    \/ FinishingDrain
    \/ \E id \in 1..Len(tasks) : FinishingJoin(id)
    \/ FinishingReturn
    \/ \E id \in 1..Len(tasks) : TaskCancel(id)
    \/ \E id \in 1..Len(tasks) : EnumerateStart(id)
    \/ \E id \in 1..Len(tasks) : EnumerateReadDir(id)
    \/ \E id \in 1..Len(tasks) : EnumerateNextEntry(id)
    \/ \E id \in 1..Len(tasks) : EnumerateSend(id)
    \/ \E id \in 1..Len(tasks) : EnumerateFinal(id)
    \/ MergeNavigate
    \/ MergeTaskEvent
    \/ MergeSend
    \/ Recv

SpecCancel == InitCancel /\ [][NextCancel]_vars

\* Two runs of enumerations, of the directory /a and of the missing path
\* /b, which fails, under the update loop's calls and the merge loop.
FailureTasks == {EnumerateDirectory("/a"), EnumerateDirectory("/b")}

NextFailure ==
    \/ \E task \in FailureTasks : Len(tasks) <= 1 /\ RunSpawn(task)
    \/ RunTrack
    \/ \E task \in FailureTasks : abort(task)
    \/ FinishingDrain
    \/ \E id \in 1..Len(tasks) : FinishingJoin(id)
    \/ FinishingReturn
    \/ \E id \in 1..Len(tasks) : TaskCancel(id)
    \/ \E id \in 1..Len(tasks) : EnumerateStart(id)
    \/ \E id \in 1..Len(tasks) : EnumerateReadDir(id)
    \/ \E id \in 1..Len(tasks) : EnumerateNextEntry(id)
    \/ \E id \in 1..Len(tasks) : EnumerateFinal(id)
    \/ MergeNavigate
    \/ MergeTaskEvent
    \/ MergeSend
    \/ Recv

\* The runtime polls every spawned future that can go on, a send that finds
\* a free slot again and again gets it (the channel's semaphore is fair),
\* run() returns, and the update loop keeps receiving.
FairFailure ==
    /\ WF_vars(RunTrack)
    /\ \A id \in 1..MaxRuns :
          /\ WF_vars(id \in 1..Len(tasks) /\ TaskCancel(id))
          /\ WF_vars(id \in 1..Len(tasks) /\ EnumerateStart(id))
          /\ WF_vars(id \in 1..Len(tasks) /\ EnumerateReadDir(id))
          /\ WF_vars(id \in 1..Len(tasks) /\ EnumerateNextEntry(id))
          /\ SF_vars(id \in 1..Len(tasks) /\ EnumerateFinal(id))
    /\ SF_vars(MergeNavigate)
    /\ SF_vars(MergeTaskEvent)
    /\ SF_vars(MergeSend)
    /\ SF_vars(Recv)

SpecFailure == Init /\ [][NextFailure]_vars /\ FairFailure

\* Two runs of tasks that add, delete, rename, enumerate and preview the
\* directory /a and the path /b, which is missing at first.
FileTasks ==
    {AddPath("/a"), AddPath("/b"), DeletePath("/a"), DeletePath("/b"),
     RenamePath("/b", "/a"), EnumerateDirectory("/a"),
     EnumerateDirectory("/b"), LoadPreview("/a"), LoadPreview("/b")}

NextFiles ==
    \/ \E task \in FileTasks : Len(tasks) <= 1 /\ RunSpawn(task)
    \/ RunTrack
    \/ \E task \in FileTasks : abort(task)
    \/ \E id \in 1..Len(tasks) : TaskCancel(id)
    \/ \E id \in 1..Len(tasks) : AddPathStart(id)
    \/ \E id \in 1..Len(tasks) : AddPathWrite(id)
    \/ \E id \in 1..Len(tasks) : AddPathDone(id)
    \/ \E id \in 1..Len(tasks) : DeletePathStart(id)
    \/ \E id \in 1..Len(tasks) : DeletePathRemove(id)
    \/ \E id \in 1..Len(tasks) : DeletePathDone(id)
    \/ \E id \in 1..Len(tasks) : RenamePathStart(id)
    \/ \E id \in 1..Len(tasks) : RenamePathRename(id)
    \/ \E id \in 1..Len(tasks) : RenamePathDone(id)
    \/ \E id \in 1..Len(tasks) : EnumerateStart(id)
    \/ \E id \in 1..Len(tasks) : EnumerateReadDir(id)
    \/ \E id \in 1..Len(tasks) : EnumerateNextEntry(id)
    \/ \E id \in 1..Len(tasks) : EnumerateFinal(id)
    \/ \E id \in 1..Len(tasks) : \E file \in Files : LoadPreviewStart(id, file)
    \/ \E id \in 1..Len(tasks) : LoadPreviewRead(id)
    \/ \E id \in 1..Len(tasks) : LoadPreviewSend(id)
    \/ MergeNavigate
    \/ MergeTaskEvent
    \/ MergeSend
    \/ Recv

SpecFiles == Init /\ [][NextFiles]_vars

\* Shutdown: two runs of the sending variants and of a variant
\* that must complete, then finishing(). The merge loop and the update loop
\* may go on or stop at any point.
ShutdownTasks ==
    {EmitMessages(<<NavigateToPath("/b")>>), EnumerateDirectory("/a"),
     LoadPreview("/b"), AddPath("/b")}

NextShutdown ==
    \/ \E task \in ShutdownTasks : Len(tasks) <= 1 /\ RunSpawn(task)
    \/ RunTrack
    \/ FinishingDrain
    \/ \E id \in 1..Len(tasks) : FinishingJoin(id)
    \/ FinishingReturn
    \/ \E id \in 1..Len(tasks) : TaskCancel(id)
    \/ \E id \in 1..Len(tasks) : EmitMessagesSend(id)
    \/ \E id \in 1..Len(tasks) : EnumerateStart(id)
    \/ \E id \in 1..Len(tasks) : EnumerateReadDir(id)
    \/ \E id \in 1..Len(tasks) : EnumerateNextEntry(id)
    \/ \E id \in 1..Len(tasks) : EnumerateFinal(id)
    \/ \E id \in 1..Len(tasks) : AddPathStart(id)
    \/ \E id \in 1..Len(tasks) : AddPathWrite(id)
    \/ \E id \in 1..Len(tasks) : AddPathDone(id)
    \/ \E id \in 1..Len(tasks) : \E file \in Files : LoadPreviewStart(id, file)
    \/ \E id \in 1..Len(tasks) : LoadPreviewRead(id)
    \/ \E id \in 1..Len(tasks) : LoadPreviewSend(id)
    \/ MergeNavigate
    \/ MergeTaskEvent
    \/ MergeSend
    \/ Recv

\* The runtime polls every spawned task that can go on and drops every
\* aborted one; the file operations terminate; join_next() yields a task
\* that has settled. Nothing is assumed of the merge loop or of a receiver.
FairShutdown ==
    /\ \A id \in 1..MaxRuns :
          /\ WF_vars(id \in 1..Len(tasks) /\ TaskCancel(id))
          /\ WF_vars(id \in 1..Len(tasks) /\ EmitMessagesSend(id))
          /\ WF_vars(id \in 1..Len(tasks) /\ EnumerateStart(id))
          /\ WF_vars(id \in 1..Len(tasks) /\ EnumerateReadDir(id))
          /\ WF_vars(id \in 1..Len(tasks) /\ EnumerateNextEntry(id))
          /\ WF_vars(id \in 1..Len(tasks) /\ EnumerateFinal(id))
          /\ WF_vars(id \in 1..Len(tasks) /\ AddPathStart(id))
          /\ WF_vars(id \in 1..Len(tasks) /\ AddPathWrite(id))
          /\ WF_vars(id \in 1..Len(tasks) /\ AddPathDone(id))
          /\ WF_vars(id \in 1..Len(tasks) /\ \E file \in Files : LoadPreviewStart(id, file))
          /\ WF_vars(id \in 1..Len(tasks) /\ LoadPreviewRead(id))
          /\ WF_vars(id \in 1..Len(tasks) /\ LoadPreviewSend(id))
          /\ WF_vars(id \in 1..Len(tasks) /\ FinishingJoin(id))
    /\ WF_vars(FinishingReturn)

SpecShutdown == Init /\ [][NextShutdown]_vars /\ FairShutdown

\* The history tasks: saves of a history with one added entry, whose path
\* exists (/a) or not (/b), and the optimization; each is run at most once,
\* and the runtime's worker threads run their file operations in any order.
HistoryTasks ==
    {SaveHistory(<<Entry(1, "Added", "/a")>>),
     SaveHistory(<<Entry(2, "Added", "/b")>>),
     OptimizeHistory}

NextHistory ==
    \/ \E task \in HistoryTasks :
          (\A id \in 1..Len(tasks) : tasks[id].task # task) /\ RunSpawn(task)
    \/ RunTrack
    \/ \E id \in 1..Len(tasks) : SaveHistoryOpen(id)
    \/ \E id \in 1..Len(tasks) : SaveHistoryAppend(id)
    \/ \E id \in 1..Len(tasks) : HistoryLoad(id)
    \/ \E id \in 1..Len(tasks) : HistoryTruncate(id)
    \/ \E id \in 1..Len(tasks) : HistoryRewrite(id)
    \/ MergeNavigate
    \/ Recv

SpecHistory == Init /\ [][NextHistory]_vars

\* ---------------------------------------------- update loop, watched paths
\* The paths of the post-render actions: PathBuf::default() and the two
\* paths of the file system.
DefaultPath == ""
ActionPaths == {DefaultPath} \cup Paths

\* The task WatchPath(p) runs: the enumeration when `p.is_dir()`, the
\* preview otherwise.
WatchTask(p) ==
    IF fs[p] = "dir" THEN EnumerateDirectory(p) ELSE LoadPreview(p)

\* PostRenderAction::WatchPath(p): nothing for the default path; else
\* tasks.run(..) up to its spawn (RunTrack is the rest of run) and
\* watcher.watch(p), whose error is dropped.
AppWatchPath(p) ==
    /\ app.pc = "recv"
    /\ Ready
    /\ app.n < MaxActions
    /\ IF p = DefaultPath
       THEN /\ app' = [app EXCEPT !.n = @ + 1, !.last = p]
            /\ UNCHANGED <<tasks, mgr>>
       ELSE /\ Len(tasks) < MaxRuns
            /\ tasks' = Append(tasks, Spawned(WatchTask(p)))
            /\ mgr' = [mgr EXCEPT !.pc = "run", !.task = WatchTask(p),
                                  !.id = Len(tasks) + 1]
            /\ app' = [app EXCEPT !.n = @ + 1, !.last = p, !.watched = @ \cup {p}]
    /\ UNCHANGED <<history_file, emitVars, notifyVars, fs, entries, abort_handles,
                   task_channel, merge, channel, messages, naborts>>

\* PostRenderAction::UnwatchPath(p): nothing for the default path; else
\* tasks.abort(&Task::EnumerateDirectory(p)) and watcher.unwatch(p), whose
\* error is dropped. `unwatched` keeps the tasks run for p before, for the
\* properties only.
AppUnwatchPath(p) ==
    /\ app.pc = "recv"
    /\ Ready
    /\ app.n < MaxActions
    /\ IF p = DefaultPath
       THEN /\ app' = [app EXCEPT !.n = @ + 1, !.last = p]
            /\ UNCHANGED <<tasks, abort_handles, mgr>>
       ELSE /\ LET index == position(abort_handles, EnumerateDirectory(p))
               IN IF index # 0
                  THEN /\ abort_handles' = remove(abort_handles, index)
                       /\ tasks' = abort_handle_abort(tasks, abort_handles[index].id,
                                                      "abort")
                  ELSE UNCHANGED <<tasks, abort_handles>>
            /\ mgr' = [mgr EXCEPT !.task = EnumerateDirectory(p)]
            /\ app' = [app EXCEPT
                          !.n = @ + 1,
                          !.last = p,
                          !.watched = @ \ {p},
                          !.unwatched = @ \cup
                              {id \in 1..Len(tasks) :
                                  tasks[id].task \in {EnumerateDirectory(p),
                                                      LoadPreview(p)}}]
    /\ UNCHANGED <<history_file, emitVars, notifyVars, fs, entries, task_channel, merge,
                   channel, messages, naborts>>

\* The update loop watching and unwatching paths; /b is a file once the
\* AddPath task, run first, has written it.
NextWatch ==
    \/ (tasks = <<>> /\ RunSpawn(AddPath("/b")))
    \/ RunTrack
    \/ \E p \in ActionPaths : AppWatchPath(p)
    \/ \E p \in ActionPaths : AppUnwatchPath(p)
    \/ \E id \in 1..Len(tasks) : TaskCancel(id)
    \/ \E id \in 1..Len(tasks) : AddPathStart(id)
    \/ \E id \in 1..Len(tasks) : AddPathWrite(id)
    \/ \E id \in 1..Len(tasks) : AddPathDone(id)
    \/ \E id \in 1..Len(tasks) : EnumerateStart(id)
    \/ \E id \in 1..Len(tasks) : EnumerateReadDir(id)
    \/ \E id \in 1..Len(tasks) : EnumerateNextEntry(id)
    \/ \E id \in 1..Len(tasks) : EnumerateFinal(id)
    \/ \E id \in 1..Len(tasks) : \E file \in Files : LoadPreviewStart(id, file)
    \/ \E id \in 1..Len(tasks) : LoadPreviewRead(id)
    \/ \E id \in 1..Len(tasks) : LoadPreviewSend(id)
    \/ MergeNavigate
    \/ MergeTaskEvent
    \/ MergeSend
    \/ Recv

SpecWatch == Init /\ [][NextWatch]_vars

\* ------------------------------------------------------ update loop, modes
\* enum PostRenderAction
ModeChanged(mode) == [type |-> "ModeChanged", mode |-> mode]
QuitAction == [type |-> "Quit"]
TaskAction(task) == [type |-> "Task", task |-> task]

\* The first line of the command line when ExecuteCommand is handled:
\* none, "histopt", "q", or another text.
Commands == {"none", "histopt", "q", "x"}

\* update, Message::ChangeMode(from, to): the model's mode afterwards and
\* the post-render actions.
update_ChangeMode(mode, from, to) ==
    IF from = to
    THEN [mode |-> mode, actions |-> <<>>]
    ELSE [mode |-> to, actions |-> <<ModeChanged(to)>>]

\* update, Message::ExecuteCommand: the actions of the command, Quit's
\* being those of update(Message::Quit), then those of
\* ChangeMode(model.mode, Mode::Normal); nothing without a first line.
update_ExecuteCommand(mode, cmd) ==
    IF cmd = "none"
    THEN [mode |-> mode, actions |-> <<>>]
    ELSE LET post_render_actions ==
                 CASE cmd = "histopt" -> <<TaskAction(OptimizeHistory)>>
                   [] cmd = "q" -> <<TaskAction(OptimizeHistory), QuitAction>>
                   [] OTHER -> <<>>
             mode_changed == update_ChangeMode(mode, mode, "Normal")
         IN [mode |-> mode_changed.mode,
             actions |-> post_render_actions \o mode_changed.actions]

\* update(model, layout, message); the other messages neither assign
\* model.mode nor return an action on the resolver.
update(mode, message, cmd) ==
    CASE message.type = "ChangeMode" ->
            update_ChangeMode(mode, message.from, message.to)
      [] message.type = "ExecuteCommand" -> update_ExecuteCommand(mode, cmd)
      [] OTHER -> [mode |-> mode, actions |-> <<>>]

\* messages.iter().flat_map(update).flatten().collect()
RECURSIVE UpdateAll(_, _, _)
UpdateAll(mode, msgs, cmd) ==
    IF msgs = <<>>
    THEN [mode |-> mode, actions |-> <<>>]
    ELSE LET first == update(mode, Head(msgs), cmd)
             rest == UpdateAll(first.mode, Tail(msgs), cmd)
         IN [mode |-> rest.mode, actions |-> first.actions \o rest.actions]

\* receiver.recv().await, the update of the model over the batch and the
\* draw; with no action the loop is at recv again.
AppRecv(cmd) ==
    /\ app.pc = "recv"
    /\ Ready
    /\ channel # <<>>
    /\ cmd \in {"histopt", "q"} => Len(tasks) < MaxRuns
    /\ messages' = Head(channel)
    /\ channel' = Tail(channel)
    /\ LET done == UpdateAll(app.mode, Head(channel).msgs, cmd)
       IN app' = [app EXCEPT
                    !.mode = done.mode,
                    !.actions = done.actions,
                    !.pc = IF done.actions = <<>> THEN "recv" ELSE "actions"]
    /\ UNCHANGED <<history_file, emitVars, notifyVars, fs, entries, abort_handles, tasks,
                   task_channel, merge, mgr, naborts>>

\* The loop behind the action it has processed.
NextAction ==
    [app EXCEPT !.actions = Tail(@),
                !.pc = IF Tail(app.actions) = <<>> THEN "recv" ELSE "actions"]

\* PostRenderAction::ModeChanged(mode) with the assignment left out.
AppModeChanged_skips ==
    /\ app.pc = "actions"
    /\ Head(app.actions).type = "ModeChanged"
    /\ lock = 0
    /\ app' = NextAction
    /\ UNCHANGED <<history_file, resolver, lock, cancellation, listeners, emitter, nevents,
                   notifyVars, fs, entries, abort_handles, tasks, task_channel,
                   merge, channel, messages, mgr, naborts>>

\* PostRenderAction::ModeChanged(mode): `resolver_mutex.lock().await`, then
\* `resolver.mode = mode`; the guard is dropped at the end of the arm.
AppModeChanged ==
    /\ app.pc = "actions"
    /\ Head(app.actions).type = "ModeChanged"
    /\ lock = 0
    /\ resolver' = [resolver EXCEPT !.mode = Head(app.actions).mode]
    /\ app' = NextAction
    /\ UNCHANGED <<history_file, lock, cancellation, listeners, emitter, nevents,
                   notifyVars, fs, entries, abort_handles, tasks, task_channel,
                   merge, channel, messages, mgr, naborts>>

\* PostRenderAction::Task(task): tasks.run(task) up to its spawn.
AppTask ==
    /\ app.pc = "actions"
    /\ Head(app.actions).type = "Task"
    /\ Idle
    /\ Len(tasks) < MaxRuns
    /\ tasks' = Append(tasks, Spawned(Head(app.actions).task))
    /\ mgr' = [mgr EXCEPT !.pc = "run", !.task = Head(app.actions).task,
                          !.id = Len(tasks) + 1]
    /\ app' = NextAction
    /\ UNCHANGED <<history_file, emitVars, notifyVars, fs, entries, abort_handles,
                   task_channel, merge, channel, messages, naborts>>

\* PostRenderAction::Quit: `break 'app_loop`, which drops the actions left.
AppQuit ==
    /\ app.pc = "actions"
    /\ Head(app.actions).type = "Quit"
    /\ Idle
    /\ app' = [app EXCEPT !.pc = "quit", !.actions = <<>>]
    /\ UNCHANGED <<history_file, emitVars, notifyVars, fs, entries, abort_handles, tasks,
                   task_channel, merge, channel, messages, mgr, naborts>>

\* The keys fed to the update loop's listener: those bound to a change of
\* mode in some mode, Enter, and a key bound to a motion.
ModeKeys ==
    {Plain(":"), Plain("Esc"), Plain("Enter"), Ctrl("n"), Plain("o"), Plain("j")}

\* The update loop with the listener of the terminal.
NextModes ==
    \/ \E key \in ModeKeys :
          nevents < MaxKeys /\ ListenerEvent(1, [kind |-> "Key", key |-> key])
    \/ ListenerLock(1)
    \/ ListenerResolve(1)
    \/ ListenerSend(1)
    \/ MergeNavigate
    \/ \E cmd \in Commands : AppRecv(cmd)
    \/ AppModeChanged
    \/ AppTask
    \/ AppQuit
    \/ RunTrack
    \/ \E id \in 1..Len(tasks) : HistoryLoad(id)

SpecModes == Init /\ [][NextModes]_vars

\* The events of the translation: every kind with no, one and two paths,
\* with and without the rescan flag.
EventPaths ==
    {<<>>} \cup {<<p>> : p \in Paths} \cup {<<p, q>> : p, q \in Paths}
TranslateResults ==
    {NotifyOk(kind, paths) : kind \in EventKinds \cup DroppedKinds,
                             paths \in EventPaths}
    \cup {NotifyRescan(kind, paths) : kind \in EventKinds \cup DroppedKinds,
                                     paths \in EventPaths}

\* The watcher's results on their way through the merge loop.
NextTranslate ==
    \/ \E result \in TranslateResults :
          nnotify < MaxTranslated /\ Notify(result)
    \/ MergeNavigate
    \/ MergeNotifyEvent
    \/ MergeSend
    \/ Recv

SpecTranslate == Init /\ [][NextTranslate]_vars

\* The keys of the binding tables; `x` is a key that no table binds.
BoundKeys ==
    UNION {{m.keys[i] : i \in 1..Len(m.keys)} :
             m \in UNION {KeyMap(mode) : mode \in Modes}}
\* The keys fed in the model: of the digits 1 to 9, which are bound alike,
\* only 2 and 3.
Keys ==
    (BoundKeys \ {Plain(DigitCodes[d]) : d \in (1..9) \ {2, 3}})
    \cup {Plain("x")}

\* The resolver on its own: one listener resolves key after key, from an
\* empty pending sequence, in any mode.
InitResolver ==
    /\ InitTasks
    /\ entries = DirEntries
    /\ merge.pc = "navigate"

NextResolver ==
    \/ \E key \in Keys :
          nevents < MaxKeys /\ ListenerEvent(1, [kind |-> "Key", key |-> key])
    \/ ListenerLock(1)
    \/ ListenerResolve(1)
    \/ ListenerSend(1)
    \/ Recv
    \/ \E mode \in Modes : nevents = 0 /\ set_current_mode(mode)

SpecResolver == InitResolver /\ [][NextResolver]_vars

\* ================================================================ properties
Ids == 1..Len(tasks)
IsEnumeration(id) == tasks[id].task.variant = "EnumerateDirectory"

\* C1: when run(task) finds a task of equal identity tracked, that task's
\* handle is aborted and removed from the tracked set before the new
\* operation is spawned: while run() has spawned the new operation and not
\* yet returned, no handle of that identity is tracked.
C1_AbortedBeforeSpawn ==
    mgr.pc = "run" =>
        \A k \in 1..Len(abort_handles) : abort_handles[k].task # mgr.task

\* C2: after two run calls with tasks of equal identity, no batch produced
\* by the first execution is received by the update loop: every batch the
\* update loop receives comes from an execution that no later run call of
\* the same identity has replaced.
C2_OnlySecondExecutionDelivered ==
    [][Len(channel') < Len(channel) =>
         LET src == Head(channel).src
         IN src = 0 \/ \A id \in (src + 1)..Len(tasks) :
                           tasks[id].task # tasks[src].task]_vars

\* C3: finishing() returns the aggregate error iff some spawned task's
\* operation returned an error; the aggregate holds each such error exactly
\* once, whenever the task finished, and nothing of a cancelled task; it
\* returns Ok(()) when no operation returned an error.
C3_AggregateOfAllErrors ==
    mgr.pc = "finished" =>
        /\ (mgr.ret = "Aggregate") <=> (\E id \in Ids : tasks[id].result = "err")
        /\ (mgr.ret = "Ok") <=> (\A id \in Ids : tasks[id].result # "err")
        /\ \A id \in Ids :
             tasks[id].result = "err" =>
                Cardinality({k \in 1..Len(mgr.errors) : mgr.errors[k].id = id}) = 1
        /\ \A k \in 1..Len(mgr.errors) :
             /\ tasks[mgr.errors[k].id].result = "err"
             /\ mgr.errors[k].error = tasks[mgr.errors[k].id].error
             /\ mgr.errors[k].error \in {"InvalidTargetPath", "FileOperationFailed"}

\* C3 witness: finishing() returned the aggregate with the error of a task
\* that was replaced before shutdown, while another task was cancelled.
C3_Witness ==
    /\ mgr.pc = "finished"
    /\ mgr.ret = "Aggregate"
    /\ \E id \in Ids : tasks[id].result = "cancelled"
    /\ \E id \in Ids : tasks[id].result = "err"

\* The variants the shutdown policy flags abort-on-finish.
AbortOnFinishVariants == {"EmitMessages", "EnumerateDirectory", "LoadPreview"}

\* C4: finishing() aborts the tracked tasks of an abort-on-finish variant and
\* no must-complete task; once its drain loop is through, every task of an
\* abort-on-finish variant is aborted or has completed; it returns with no
\* tracked handle and every spawned task settled.
C4_FinishingPolicy ==
    /\ \A id \in Ids :
         tasks[id].by = "finishing" =>
            tasks[id].task.variant \in AbortOnFinishVariants
    /\ mgr.pc \in {"join", "finished"} =>
         /\ abort_handles = <<>>
         /\ \A id \in Ids :
              tasks[id].task.variant \in AbortOnFinishVariants =>
                 tasks[id].aborted \/ tasks[id].result # "running"
    /\ mgr.pc = "finished" =>
         \A id \in Ids : tasks[id].result # "running" /\ tasks[id].joined

\* C4 witness: finishing() waits for a must-complete task it left alone,
\* having aborted an enumeration.
C4_Witness ==
    /\ mgr.pc = "join"
    /\ \E id \in Ids : tasks[id].by = "finishing"
    /\ \E id \in Ids :
         /\ tasks[id].task.variant = "AddPath"
         /\ tasks[id].result = "running"
         /\ ~tasks[id].aborted

\* C5: abort(task) aborts and untracks the handle of that identity when one
\* is tracked and changes no other handle and no other task; with no such
\* handle it changes nothing.
C5_AbortFrame ==
    [][naborts' = naborts + 1 =>
         LET task == mgr'.task
             hit == {k \in 1..Len(abort_handles) : abort_handles[k].task = task}
         IN /\ abort_handles' =
                 SelectSeq(abort_handles, LAMBDA h : h.task # task)
            /\ Len(tasks') = Len(tasks)
            /\ \A id \in Ids :
                 IF \E k \in hit : abort_handles[k].id = id
                 THEN /\ tasks'[id].aborted \/ tasks[id].result # "running"
                      /\ tasks'[id].result = tasks[id].result
                 ELSE tasks'[id] = tasks[id]
            /\ hit = {} => tasks' = tasks
            /\ UNCHANGED <<app, history_file, fs, task_channel, merge, channel, messages>>]_vars

\* C5 witness: abort(task) has aborted the task's handle while a handle of
\* another identity stays tracked with its task running.
C5_Witness ==
    /\ naborts > 0
    /\ Idle
    /\ \E id \in Ids :
         /\ tasks[id].by = "abort"
         /\ tasks[id].task = mgr.task
         /\ tasks[id].result = "running"
    /\ \E k \in 1..Len(abort_handles) :
         /\ abort_handles[k].task # mgr.task
         /\ tasks[abort_handles[k].id].result = "running"
         /\ ~tasks[abort_handles[k].id].aborted

RECURSIVE Pow2(_)
Pow2(k) == IF k = 0 THEN 1 ELSE 2 * Pow2(k - 1)

\* The number of batch thresholds 100, 200, 400, ... that are <= n.
ThresholdsUpTo(n) ==
    Cardinality({k \in 0..9 : InitialCacheSize * Pow2(k) <= n})

\* The batches of a whole enumeration of `listing`.
ExpectedBatches(path, listing) ==
    [k \in 1..ThresholdsUpTo(Len(listing)) |->
        <<PathEnumerationContentChanged(
            path, SubSeq(listing, 1, InitialCacheSize * Pow2(k - 1)))>>]
    \o << <<PathEnumerationContentChanged(path, listing),
            PathEnumerationFinished(path)>> >>

\* C6: an enumeration of a directory with n entries that is not cancelled
\* sends an incremental content message exactly when the entries read reach
\* 100, 200, 400, ..., then one final batch [content(all n entries),
\* finished]; the final content holds every entry once, also for n = 0 and
\* for n a threshold.
C6_EnumerationBatches ==
    \A id \in Ids :
        IsEnumeration(id) =>
            /\ tasks[id].result = "ok" =>
                 /\ tasks[id].rd = [k \in 1..entries |-> k]
                 /\ tasks[id].sent = ExpectedBatches(PathOf(id), tasks[id].rd)
            /\ tasks[id].pc = "send" =>
                 Len(tasks[id].cache) = InitialCacheSize * Pow2(Len(tasks[id].sent))
            /\ tasks[id].pc \in {"next_entry", "final"} =>
                 Len(tasks[id].sent) = ThresholdsUpTo(Len(tasks[id].cache))

\* C6 witness: a completed enumeration of a directory whose size is exactly
\* the third threshold, with three incremental batches and the final one.
C6_Witness ==
    /\ entries = 4 * InitialCacheSize
    /\ \E id \in Ids :
         /\ IsEnumeration(id)
         /\ tasks[id].result = "ok"
         /\ Len(tasks[id].sent) = 4

\* A step of suspend() (its call or its return) or of resume().
SuspendOrResumeStep == emitter' # emitter
\* The terminal-input listener was stopped by suspend() and no resume()
\* followed.
Suspended == listeners[Len(listeners)].pc = "stopped"

\* C7: suspend() followed by resume() leaves the resolver's mode and pending
\* sequence (hence its count) as they were: no step of suspend() or resume()
\* changes the resolver, and the key a listener reads next, the restarted
\* listener included, is resolved against the shared resolver as it stands.
C7_SuspendResumePreservesResolver ==
    [][/\ SuspendOrResumeStep => resolver' = resolver
       /\ \A l \in 1..Len(listeners) :
            listeners[l].pc = "resolve" /\ listeners'[l].pc = "send"
            => /\ resolver' = add_and_resolve(resolver, listeners[l].key).resolver
               /\ listeners'[l].held.msgs =
                    add_and_resolve(resolver, listeners[l].key).messages
      ]_vars

\* The first listener read `g` and was stopped by suspend(); the listener
\* that resume() started read the next key and resolved `g g` with it.
C7_Witness ==
    /\ Len(listeners) = 2
    /\ listeners[1].pc = "stopped" /\ listeners[1].nread = 1
    /\ listeners[2].nread = 1
    /\ listeners[2].held.msgs = <<MoveCursor(1, "Top")>>
    /\ emitter.ret = "Ok(true)"

\* C8: from the return of suspend() until resume() is called, the update
\* loop receives no batch that comes from terminal input and no listener
\* reads a terminal event.
C8_NoKeyEventsWhileSuspended ==
    [][Suspended /\ emitter.pc = "idle"
       => /\ nevents' = nevents
          /\ Len(channel') < Len(channel) => Head(channel).src # -1
      ]_vars

\* C9: a suspend() call made while the listener is suspended sends no
\* second cancellation request, does not wait, returns Ok(false) and changes
\* nothing else of the multiplexer; suspend() returns Ok(true) only once the
\* listener it asked has acknowledged and stopped.
C9_SuspendIdempotent ==
    [][/\ Suspended /\ emitter'.nsuspends = emitter.nsuspends + 1
          => /\ emitter' = [emitter EXCEPT !.ret = "Ok(false)",
                                           !.nsuspends = @ + 1]
             /\ UNCHANGED <<app, history_file, cancellation, listeners, resolver, channel,
                            messages, task_channel, merge, nevents>>
       /\ emitter'.ret = "Ok(true)"
          => /\ emitter'.pc = "idle"
             /\ listeners'[emitter'.awaits].pc = "stopped"
             /\ listeners'[emitter'.awaits].rx = "acknowledged"
      ]_vars

\* suspend() was called a second time with the listener already stopped and
\* returned Ok(false).
C9_Witness ==
    /\ Suspended
    /\ emitter.nsuspends = 2
    /\ emitter.nresumes = 0
    /\ emitter.ret = "Ok(false)"
    /\ emitter.pc = "idle"

\* C10: a mode change made from outside the resolver (a step that changes
\* the mode without a key being read) resets the pending key sequence, and
\* with it the repeat count, to empty.
C10_ModeChangeResetsPending ==
    [][resolver'.mode # resolver.mode /\ nevents' = nevents
       => resolver'.buffer = <<>>]_vars

\* C11: the key a listener resolves after set_current_mode(m) returned is
\* resolved against the table of mode m, the mode the resolver holds then;
\* setting the mode and resolving a key exclude each other: the mode never
\* changes while a listener holds the lock for its add_and_resolve call, and
\* at most one listener is inside that call.
C11_ModeSetExcludesResolution ==
    [][/\ lock # 0 => resolver'.mode = resolver.mode
       /\ \A l \in 1..Len(listeners) :
            listeners[l].pc = "resolve"
            => /\ lock = l
               /\ listeners'[l].pc = "send"
                  => LET found == Lookup(resolver.mode,
                                         Append(resolver.buffer, listeners[l].key),
                                         1, 1, 0)
                     IN listeners'[l].held.msgs =
                          IF found.kind = "resolved" THEN found.messages
                          ELSE IF found.kind = "unmatched"
                                  /\ InsertsText(resolver.mode)
                          THEN <<Modification(<<"Insert", listeners[l].key>>)>>
                          ELSE <<>>
      ]_vars

\* set_current_mode(Normal) returned and a listener holds the lock to resolve
\* its second key, `j`, against the Normal table.
C11_Witness ==
    /\ resolver.mode = "Normal"
    /\ lock # 0
    /\ listeners[lock].pc = "resolve"
    /\ listeners[lock].key = Plain("j")
    /\ listeners[lock].nread = 2

\* The merge loop takes a watcher result off notify_channel.
TakesNotifyResult == Len(notify_channel') < Len(notify_channel)

\* C12: a rename of both names with exactly two paths [old, new] yields the
\* batch [PathRemoved(old), PathsAdded([new])], in that order; with any
\* other number of paths it yields no message and no batch.
C12_RenameBothEvent ==
    [][TakesNotifyResult
       => LET event == Head(notify_channel).result
          IN event.ok /\ event.kind = "RenameBoth"
             => IF Len(event.paths) = 2
                THEN /\ merge'.pc = "send"
                     /\ merge'.held.msgs = <<PathRemoved(event.paths[1]),
                                             PathsAdded(<<event.paths[2]>>)>>
                ELSE /\ merge'.pc = "select"
                     /\ merge'.held.msgs = <<>>
                     /\ channel' = channel
      ]_vars

\* The update loop received the batch of a rename from /a to /b, and a
\* second result was taken off the queue after it.
C12_Witness ==
    /\ messages.msgs = <<PathRemoved("/a"), PathsAdded(<<"/b">>)>>
    /\ nnotify = 2
    /\ notify_channel = <<>>

\* The batches that a receive of the head of the outbound channel leaves
\* behind: on the outbound channel, held by the merge loop, on the
\* completion channel.
Behind ==
    Tail(channel)
    \o (IF merge.pc = "send" THEN <<merge.held>> ELSE <<>>)
    \o task_channel
\* The batches the task execution `id` sent before the batch `msgs`.
SentBefore(id, msgs) ==
    {tasks[id].sent[j] : j \in {i \in 1..Len(tasks[id].sent) :
                                  \E k \in (i + 1)..Len(tasks[id].sent) :
                                     tasks[id].sent[k] = msgs}}
\* The terminal events that listeners have read and not yet sent on.
TerminalPending ==
    {listeners[l].at : l \in {i \in 1..Len(listeners) :
                                listeners[i].pc \in {"lock", "resolve", "send"}}}

\* C13: the update loop receives the batches of one source in the order the
\* source produced them: when it receives a batch, nothing that the same
\* source produced earlier is still on its way, neither an earlier batch of
\* the same task execution, nor an earlier watcher result, nor an earlier
\* terminal event.
C13_SourceOrder ==
    [][Len(channel') < Len(channel)
       => LET batch == Head(channel)
          IN /\ batch.src > 0
                => \A i \in 1..Len(Behind) :
                      Behind[i].src = batch.src
                      => Behind[i].msgs \notin SentBefore(batch.src, batch.msgs)
             /\ batch.src = -2
                => /\ \A i \in 1..Len(Behind) :
                        Behind[i].src = -2 => Behind[i].seq > batch.seq
                   /\ \A i \in 1..Len(notify_channel) :
                        notify_channel[i].seq > batch.seq
             /\ batch.src = -1
                => /\ \A i \in 1..Len(Behind) :
                        Behind[i].src = -1 => Behind[i].seq > batch.seq
                   /\ \A at \in TerminalPending : at > batch.seq
      ]_vars

\* The watcher result number n, which translates to messages, waits on the
\* watcher's channel.
NotifyQueued(n) ==
    \E i \in 1..Len(notify_channel) :
       /\ notify_channel[i].seq = n
       /\ notify_channel[i].result.ok
       /\ handle_notify_event(notify_channel[i].result).some
\* The batch of the watcher result number n is on the outbound channel.
NotifyForwarded(n) ==
    \E i \in 1..Len(channel) : channel[i].src = -2 /\ channel[i].seq = n
\* A batch of the task execution id is on the completion channel, or on the
\* outbound channel.
TaskQueued(id) == \E i \in 1..Len(task_channel) : task_channel[i].src = id
TaskForwarded(id) == \E i \in 1..Len(channel) : channel[i].src = id

\* C14: while the update loop keeps receiving, every file system event that
\* translates to messages and every batch a task put on the completion
\* channel is eventually forwarded to the outbound channel, whatever the
\* other sources do.
C14_NoStarvation ==
    /\ \A n \in 1..MaxNotify : NotifyQueued(n) ~> NotifyForwarded(n)
    /\ \A id \in 1..MaxRuns : TaskQueued(id) ~> TaskForwarded(id)

Last(seq) == seq[Len(seq)]
\* The batches of the task execution id that were sent and not yet received.
InFlight(id) ==
    SelectSeq(channel \o (IF merge.pc = "send" THEN <<merge.held>> ELSE <<>>)
                      \o task_channel,
              LAMBDA batch : batch.src = id)

\* C15: the outbound channel (as the completion channel) never holds more
\* than one batch; a producer that has a batch to send, the merge loop, a
\* listener, or a task that was not aborted, keeps it until it is on the
\* channel, however long the channel is full; so at most three batches of an
\* enumeration are on their way to the update loop at any time.
C15_Backpressure ==
    [][/\ Len(channel') <= 1
       /\ Len(task_channel') <= 1
       /\ merge.pc = "send"
          => \/ merge' = merge
             \/ merge'.pc = "select" /\ channel' = Append(channel, merge.held)
       /\ \A l \in 1..Len(listeners) :
            listeners[l].pc = "send"
            => \/ listeners'[l] = listeners[l]
               \/ /\ listeners'[l].pc = "select"
                  /\ channel' = Append(channel, listeners[l].held)
       /\ \A id \in 1..Len(tasks) :
            tasks[id].pc \in {"send", "final"} /\ ~tasks'[id].aborted
            => \/ tasks'[id] = tasks[id]
               \/ /\ task_channel' = Append(task_channel, Batch(id, Last(tasks'[id].sent)))
                  /\ Head(Last(tasks'[id].sent)).content = tasks[id].cache
       /\ \A id \in 1..Len(tasks') : Len(InFlight(id)') <= 3
      ]_vars

\* Three batches of the enumeration are on their way, the task waits with
\* the fourth, the merge loop and a listener wait with a batch each, and
\* the update loop has not received any of them.
C15_Witness ==
    /\ Len(channel) = 1
    /\ merge.pc = "send"
    /\ Len(InFlight(1)) = 3
    /\ tasks[1].pc = "final"
    /\ \E l \in 1..Len(listeners) : listeners[l].pc = "send"

\* ------------------------------------------------------------------ C16
\* The step in which the listener resolves the key it read, the key, the
\* pending sequence with the key appended, and the messages of the batch.
ResolveStep == listeners[1].pc = "resolve" /\ listeners'[1].pc = "send"
ResolvedKey == listeners[1].key
Fed == Append(resolver.buffer, ResolvedKey)
Emitted == listeners'[1].held.msgs

\* The messages a binding table entry maps to when no count was typed.
Mapped(mode, binding) ==
    CASE binding.kind = "Message" -> <<binding.message @@ [count |-> 1]>>
      [] binding.kind = "Motion" -> <<MoveCursor(1, binding.direction)>>
      [] binding.kind = "RepeatOrMotion" -> <<MoveCursor(1, binding.direction)>>
      [] binding.kind = "Mode" -> <<ChangeMode(mode, binding.mode)>>
      [] binding.kind = "ModeAndTextModification" ->
            <<ChangeMode(mode, binding.mode), Modification(binding.modification)>>
      [] binding.kind = "Repeat" -> <<>>

\* The entries of the current mode's table that are complete and
\* unambiguous: no longer sequence starts with their keys.
Unambiguous ==
    {m \in KeyMap(resolver.mode) : ~HasChildren(resolver.mode, m.keys)}

\* Some sequences of the tables and the messages they are bound to.
Literal ==
    {[mode |-> "Navigation", keys |-> <<Plain("g"), Plain("g")>>,
      msgs |-> <<MoveCursor(1, "Top")>>],
     [mode |-> "Normal", keys |-> <<Shift("g")>>,
      msgs |-> <<MoveCursor(1, "Bottom")>>],
     [mode |-> "Navigation", keys |-> <<Plain("h")>>,
      msgs |-> <<SelectParent @@ [count |-> 1]>>],
     [mode |-> "Normal", keys |-> <<Plain("h")>>,
      msgs |-> <<MoveCursor(1, "Left")>>],
     [mode |-> "Normal", keys |-> <<Plain("d"), Plain("d")>>,
      msgs |-> <<Modification("DeleteLineOnCursor") @@ [count |-> 1]>>],
     [mode |-> "Normal", keys |-> <<Plain("o")>>,
      msgs |-> <<ChangeMode("Normal", "Insert"),
                 Modification("InsertNewLineUnder")>>],
     [mode |-> "Insert", keys |-> <<Plain("Esc")>>,
      msgs |-> <<ChangeMode("Insert", "Normal")>>],
     [mode |-> "Command", keys |-> <<Plain("Enter")>>,
      msgs |-> <<ExecuteCommand @@ [count |-> 1]>>]}

\* C16 as stated: in every mode, the last key of every complete, unambiguous
\* sequence of the table, fed key by key from an empty pending sequence,
\* yields exactly the mapped messages and leaves the pending sequence (and
\* with it the repeat count) empty.
C16_EveryCompleteSequenceResolves ==
    [][ResolveStep =>
         \A m \in Unambiguous :
            Fed = m.keys =>
               /\ Emitted = Mapped(resolver.mode, m.binding)
               /\ resolver'.buffer = <<>>]_vars

\* C16: the same for every complete, unambiguous sequence whose binding is
\* not a Repeat digit: a Repeat digit emits nothing and stays pending as the
\* count of what follows. The sequences of Literal yield the messages
\* written there.
C16_CompleteSequenceResolves ==
    [][ResolveStep =>
         /\ \A m \in Unambiguous :
               Fed = m.keys /\ m.binding.kind # "Repeat" =>
                  /\ Emitted = Mapped(resolver.mode, m.binding)
                  /\ resolver'.buffer = <<>>
         /\ \A m \in Unambiguous :
               Fed = m.keys /\ m.binding.kind = "Repeat" =>
                  /\ Emitted = <<>>
                  /\ resolver'.buffer = Fed
         /\ \A l \in Literal :
               resolver.mode = l.mode /\ Fed = l.keys =>
                  /\ Emitted = l.msgs
                  /\ resolver'.buffer = <<>>]_vars

\* `g`, `g` were fed in Navigation mode and resolved to the motion to the top.
C16_Witness ==
    /\ resolver.mode = "Navigation"
    /\ nevents = 2
    /\ listeners[1].pc = "send"
    /\ listeners[1].at = 2
    /\ listeners[1].held.msgs = <<MoveCursor(1, "Top")>>
    /\ resolver.buffer = <<>>

\* ------------------------------------------------------------------ C17
\* Whether `keys` is a proper prefix of bound sequences of `mode` and not a
\* bound sequence itself.
ProperPrefix(mode, keys) ==
    /\ keys # <<>>
    /\ HasChildren(mode, keys)
    /\ \A m \in KeyMap(mode) : m.keys # keys

\* The prefixes the tables of map.rs have.
Prefixes ==
    {[mode |-> "Navigation", keys |-> <<Plain("g")>>],
     [mode |-> "Navigation", keys |-> <<Plain("z")>>],
     [mode |-> "Normal", keys |-> <<Plain("g")>>],
     [mode |-> "Normal", keys |-> <<Plain("z")>>],
     [mode |-> "Normal", keys |-> <<Plain("d")>>]}

\* C17: a key sequence that is a proper prefix of bound sequences of the
\* current mode (`g`, `z`, and `d` in Normal mode) emits no message and
\* is left pending as it is; the pending sequence changes only when a key
\* is resolved (no timeout), and the key after a pending prefix completes a
\* binding, extends the prefix, or is unmatched and resets it.
C17_PrefixStaysPending ==
    [][/\ ResolveStep /\ ProperPrefix(resolver.mode, Fed) =>
             Emitted = <<>> /\ resolver'.buffer = Fed
       /\ \A p \in Prefixes :
             ResolveStep /\ resolver.mode = p.mode /\ Fed = p.keys =>
                Emitted = <<>> /\ resolver'.buffer = p.keys
       /\ resolver'.buffer # resolver.buffer => ResolveStep
       /\ ResolveStep /\ ProperPrefix(resolver.mode, resolver.buffer) =>
             \/ /\ \E m \in Unambiguous : m.keys = Fed
                /\ resolver'.buffer = <<>>
             \/ /\ ProperPrefix(resolver.mode, Fed)
                /\ resolver'.buffer = Fed
             \/ /\ ~HasNode(resolver.mode, Fed)
                /\ resolver'.buffer = <<>>]_vars

\* `d` was fed in Normal mode, its empty batch was sent and received, and
\* the listener waits for the next key with `d` pending.
C17_Witness ==
    /\ resolver.mode = "Normal"
    /\ resolver.buffer = <<Plain("d")>>
    /\ listeners[1].pc = "select"
    /\ messages = FromTerminal(1, <<>>)

\* ------------------------------------------------------------------ C18
\* The pending sequence is made of digit keys only, and the decimal number
\* they spell.
DigitOf(key) ==
    IF key = Plain("0") THEN 0
    ELSE CHOOSE d \in 1..9 : key = Plain(DigitCodes[d])
IsDigit(key) == key = Plain("0") \/ \E d \in 1..9 : key = Plain(DigitCodes[d])
AllDigits(keys) == \A i \in 1..Len(keys) : IsDigit(keys[i])
RECURSIVE Decimal(_)
Decimal(keys) ==
    IF keys = <<>> THEN 0
    ELSE 10 * Decimal(SubSeq(keys, 1, Len(keys) - 1)) + DigitOf(keys[Len(keys)])

\* The single-key Motion and Message bindings of the current mode.
Actions ==
    {m \in KeyMap(resolver.mode) :
        Len(m.keys) = 1 /\ m.binding.kind \in {"Motion", "Message"}}

\* C18: in Navigation and Normal mode digit keys that start with a nonzero
\* digit emit nothing and accumulate one decimal count; the Motion or
\* Message key after them yields one message that carries the count (`2`,
\* `3`, `j` move the cursor down by 23), and a Motion or Message resolved
\* with no digits before it carries the count 1.
C18_DigitsAccumulate ==
    [][ResolveStep /\ ~InsertsText(resolver.mode)
         /\ AllDigits(resolver.buffer)
         /\ (resolver.buffer # <<>> => resolver.buffer[1] # Plain("0")) =>
         /\ IsDigit(ResolvedKey) /\ Fed[1] # Plain("0") =>
               Emitted = <<>> /\ resolver'.buffer = Fed
         /\ \A m \in Actions :
               ResolvedKey = m.keys[1] =>
                  /\ Len(Emitted) = 1
                  /\ Emitted[1].count =
                        IF resolver.buffer = <<>> THEN 1
                        ELSE Decimal(resolver.buffer)
                  /\ m.binding.kind = "Motion" =>
                        Emitted[1].direction = m.binding.direction
                  /\ m.binding.kind = "Message" =>
                        Emitted[1].type = m.binding.message.type
                  /\ resolver'.buffer = <<>>
         /\ resolver.buffer = <<Plain("2"), Plain("3")>>
               /\ ResolvedKey = Plain("j") =>
               Emitted = <<MoveCursor(23, "Down")>>]_vars

\* `2`, `3`, `j` were fed in Normal mode: the batch of `j`, the third key,
\* is one motion down with the count 23.
C18_Witness ==
    /\ resolver.mode = "Normal"
    /\ listeners[1].pc = "send"
    /\ listeners[1].held = FromTerminal(3, <<MoveCursor(23, "Down")>>)
    /\ resolver.buffer = <<>>

\* ------------------------------------------------------------------ C19
\* The keys the current mode binds to RepeatOrMotion.
RepeatOrMotions ==
    {m \in KeyMap(resolver.mode) : m.binding.kind = "RepeatOrMotion"}

\* C19: a key bound to RepeatOrMotion(0, motion), which is `0` in Normal
\* mode, yields its motion with the count 1 and leaves nothing pending when
\* no count is accumulating; when digits with a nonzero count are pending
\* it emits nothing and extends the count by a decimal place (`2`, `0`,
\* `j` move down by 20).
C19_RepeatOrMotion ==
    [][ResolveStep =>
         /\ \A m \in RepeatOrMotions :
               ResolvedKey = m.keys[1] =>
                  /\ resolver.buffer = <<>> =>
                        /\ Emitted = <<MoveCursor(1, m.binding.direction)>>
                        /\ resolver'.buffer = <<>>
                  /\ AllDigits(resolver.buffer)
                        /\ Decimal(resolver.buffer) > 0 =>
                        /\ Emitted = <<>>
                        /\ resolver'.buffer = Fed
                        /\ Decimal(resolver'.buffer)
                              = 10 * Decimal(resolver.buffer)
         /\ resolver.mode = "Normal" /\ ResolvedKey = Plain("0")
               /\ resolver.buffer = <<>> =>
               Emitted = <<MoveCursor(1, "LineStart")>>
         /\ resolver.mode = "Normal" /\ ResolvedKey = Plain("j")
               /\ resolver.buffer = <<Plain("2"), Plain("0")>> =>
               Emitted = <<MoveCursor(20, "Down")>>]_vars

\* In Normal mode a first `0` was resolved to the motion to the line start,
\* and after it `2` and `0` are pending as a count with nothing emitted.
C19_Witness ==
    /\ resolver.mode = "Normal"
    /\ messages = FromTerminal(1, <<MoveCursor(1, "LineStart")>>)
    /\ resolver.buffer = <<Plain("2"), Plain("0")>>
    /\ listeners[1].held = FromTerminal(3, <<>>)

\* ------------------------------------------------------------------ C20
\* The keys of a sequence after the digits of its count.
RECURSIVE Chord(_)
Chord(keys) ==
    IF keys # <<>> /\ IsDigit(keys[1]) THEN Chord(Tail(keys)) ELSE keys

\* C20: in Normal and Navigation mode a key that makes the pending
\* sequence match no node of the mode's table (`x`, or `j` after `g`)
\* emits no message and leaves the pending sequence, count included, empty,
\* so that the next key is looked up from the root of the table.
C20_UnmatchedResets ==
    [][ResolveStep /\ resolver.mode \in {"Normal", "Navigation"} =>
         /\ Chord(Fed) # <<>> /\ ~HasNode(resolver.mode, Chord(Fed)) =>
               Emitted = <<>> /\ resolver'.buffer = <<>>
         /\ ResolvedKey = Plain("x") =>
               Emitted = <<>> /\ resolver'.buffer = <<>>
         /\ resolver.buffer = <<Plain("g")>> /\ ResolvedKey = Plain("j") =>
               Emitted = <<>> /\ resolver'.buffer = <<>>]_vars

\* `g`, `x`, `j` were fed in Normal mode: `x` after `g` matched nothing and
\* its empty batch was received, the sequence was reset, and `j` after it
\* resolved alone to the motion down.
C20_Witness ==
    /\ resolver.mode = "Normal"
    /\ nevents = 3
    /\ messages = FromTerminal(2, <<>>)
    /\ listeners[1].held = FromTerminal(3, <<MoveCursor(1, "Down")>>)
    /\ resolver.buffer = <<>>

\* ------------------------------------------------------------------ C21
\* Whether `batches` is a proper prefix of `whole`.
ProperPrefixOf(batches, whole) ==
    /\ Len(batches) < Len(whole)
    /\ batches = SubSeq(whole, 1, Len(batches))

\* The messages a task has sent, in order.
RECURSIVE Flatten(_)
Flatten(batches) ==
    IF batches = <<>> THEN <<>> ELSE Head(batches) \o Flatten(Tail(batches))

\* C21: a task whose abort has taken effect (its future was dropped)
\* sends nothing more; what a cancelled enumeration has sent is a proper
\* prefix of the batches of the whole enumeration, without a finished
\* message; finishing() pushes no error for a cancelled task, and returns
\* Ok(()) when the tasks were cancelled or succeeded.
C21_CancellationStopsProduction ==
    [][/\ \A id \in Ids :
             tasks[id].result = "cancelled" =>
                /\ tasks'[id].result = "cancelled"
                /\ tasks'[id].sent = tasks[id].sent
                /\ Len(task_channel') > Len(task_channel) =>
                      Last(task_channel').src # id
       /\ \A id \in 1..Len(tasks') :
             tasks'[id].result = "cancelled" =>
                /\ tasks'[id].error = "none"
                /\ \A k \in 1..Len(mgr'.errors) : mgr'.errors[k].id # id
                /\ tasks'[id].task.variant = "EnumerateDirectory" =>
                      /\ ProperPrefixOf(
                            tasks'[id].sent,
                            ExpectedBatches(tasks'[id].task.payload[1],
                                            Listing(tasks'[id].task.payload[1])))
                      /\ \A k \in 1..Len(Flatten(tasks'[id].sent)) :
                            Flatten(tasks'[id].sent)[k].type
                               # "PathEnumerationFinished"
       /\ mgr'.pc = "finished"
             /\ (\A id \in 1..Len(tasks') :
                    tasks'[id].result \in {"cancelled", "ok"}) =>
             mgr'.ret = "Ok"]_vars

\* An enumeration was cancelled after its two incremental batches, before
\* the final one, and finishing() returned Ok(()).
C21_Witness ==
    /\ mgr.pc = "finished"
    /\ mgr.ret = "Ok"
    /\ \E id \in Ids :
         /\ tasks[id].result = "cancelled"
         /\ Len(tasks[id].sent) = 2

\* ------------------------------------------------------------------ C22
\* Some task's operation has returned an error.
Failed == \E id \in Ids : tasks[id].result = "err"

\* The final batch of the task is the batch the update loop has received.
Delivered(id) == messages.src = id

\* C22: the step in which a task's operation returns an error changes
\* nothing but that task: not the merge loop, the channels, the tracked
\* handles, the other tasks or the call in progress; errors are pushed only
\* by finishing(); and while some task has failed, every other enumeration
\* that runs unaborted still gets its final batch to the update loop,
\* unless it is aborted or the shutdown begins.
C22_FailureIsIsolated ==
    /\ [][/\ \A id \in Ids :
               tasks[id].result = "running" /\ tasks'[id].result = "err" =>
                  /\ \A other \in Ids \ {id} : tasks'[other] = tasks[other]
                  /\ Len(tasks') = Len(tasks)
                  /\ UNCHANGED <<app, history_file, merge, channel, task_channel, messages,
                                 abort_handles, mgr, fs>>
         /\ mgr'.errors # mgr.errors => mgr.pc = "join" \/ mgr'.pc = "join"]_vars
    /\ \A id \in 1..MaxRuns :
          (/\ id \in Ids
           /\ Failed
           /\ tasks[id].task = EnumerateDirectory("/a")
           /\ tasks[id].result = "running")
          ~> (/\ id \in Ids
              /\ \/ Delivered(id)
                 \/ tasks[id].aborted
                 \/ mgr.pc \in {"join", "finished"})

\* The enumeration of /b has failed, and the enumeration of /a that was
\* run after it has its final batch received by the update loop, while
\* the handle of the failed task is still there to be aborted.
C22_Witness ==
    /\ Len(tasks) = 2
    /\ tasks[1].result = "err"
    /\ tasks[2].result = "ok"
    /\ ~tasks[2].aborted
    /\ Delivered(2)
    /\ mgr.pc = "idle"
    /\ naborts = 0

\* ------------------------------------------------------------------ C23
\* The variants that check their target, and the state in which the path
\* of a task is no valid target for it.
ChecksTarget ==
    {"AddPath", "DeletePath", "RenamePath", "EnumerateDirectory"}
Disallowed(task) ==
    IF task.variant = "AddPath"
    THEN fs[task.payload[1]] # "missing"
    ELSE fs[task.payload[1]] = "missing"

\* The task takes its first step: the check of its target.
FirstStep(id) ==
    /\ tasks[id].result = "running"
    /\ tasks[id].pc = "start"
    /\ tasks'[id].pc # "start"
    /\ tasks'[id].result # "cancelled"

\* C23: an AddPath whose path exists when the task checks it, and a
\* DeletePath, RenamePath or EnumerateDirectory whose path is missing then,
\* fails with InvalidTargetPath in that step, which changes neither the
\* file system nor a channel; such a task has sent nothing and does
\* nothing afterwards; a task whose target is valid does not get this
\* error, whatever else fails.
C23_InvalidTarget ==
    [][\A id \in Ids :
          /\ FirstStep(id) /\ tasks[id].task.variant \in ChecksTarget =>
                IF Disallowed(tasks[id].task)
                THEN /\ tasks'[id].result = "err"
                     /\ tasks'[id].error = "InvalidTargetPath"
                     /\ tasks'[id].sent = <<>>
                     /\ UNCHANGED <<app, history_file, fs, task_channel, channel, messages>>
                ELSE /\ tasks'[id].result = "running"
                     /\ tasks'[id].error = "none"
          /\ tasks'[id].error = "InvalidTargetPath" =>
                \/ tasks'[id] = [tasks[id] EXCEPT !.joined = tasks'[id].joined]
                \/ FirstStep(id) /\ Disallowed(tasks[id].task)
          /\ tasks'[id].result = "err"
                /\ tasks'[id].error # "InvalidTargetPath" =>
                tasks'[id].error = "FileOperationFailed"
          /\ Len(task_channel') > Len(task_channel) =>
                tasks[Last(task_channel').src].error # "InvalidTargetPath"]_vars

\* AddPath on the directory /a and the enumeration of the missing /b have
\* both failed with InvalidTargetPath; the paths are as they were.
C23_Witness ==
    /\ Len(tasks) = 2
    /\ tasks[1].task = AddPath("/a")
    /\ tasks[2].task = EnumerateDirectory("/b")
    /\ \A id \in Ids :
         /\ tasks[id].result = "err"
         /\ tasks[id].error = "InvalidTargetPath"
         /\ tasks[id].sent = <<>>
    /\ fs["/a"] = "dir"
    /\ fs["/b"] = "missing"
    /\ task_channel = <<>>

\* ------------------------------------------------------------------ C24
\* Contents and the lines of their preview.
PreviewLines ==
    {[content |-> <<>>, lines |-> <<>>],
     [content |-> <<"a">>, lines |-> << <<"a">> >>],
     [content |-> <<"\n">>, lines |-> << <<>> >>],
     [content |-> <<"a", "\n">>, lines |-> << <<"a">> >>],
     [content |-> <<"a", "\n", "a">>, lines |-> << <<"a">>, <<"a">> >>],
     [content |-> <<"a", "\n", "\n">>, lines |-> << <<"a">>, <<>> >>],
     [content |-> <<"\n", "a", "\n">>, lines |-> << <<>>, <<"a">> >>],
     [content |-> <<"a", "\r", "\n">>, lines |-> << <<"a">> >>]}

\* The number of line feeds of a content.
LineFeeds(content) ==
    Cardinality({k \in 1..Len(content) : content[k] = "\n"})

\* C24: a LoadPreview whose file has a detected type that is not text
\* returns Ok(()) without a message; one that reads its file and returns
\* has sent exactly one batch with the one message PreviewLoaded(path,
\* lines), the lines being those of the content; a failed one has sent
\* nothing.
C24_PreviewOnlyForText ==
    \A id \in Ids :
        tasks[id].task.variant = "LoadPreview" =>
            /\ Len(tasks[id].sent) <= 1
            /\ tasks[id].result = "err" => tasks[id].sent = <<>>
            /\ tasks[id].rd # <<>> /\ tasks[id].rd.infer = "other" =>
                  /\ tasks[id].result = "ok"
                  /\ tasks[id].error = "none"
                  /\ tasks[id].sent = <<>>
            /\ tasks[id].result = "ok" /\ tasks[id].rd.infer # "other" =>
                  LET content == tasks[id].rd.content
                  IN /\ Len(tasks[id].sent) = 1
                     /\ Len(tasks[id].sent[1]) = 1
                     /\ tasks[id].sent[1][1].type = "PreviewLoaded"
                     /\ tasks[id].sent[1][1].path = PathOf(id)
                     /\ Len(tasks[id].sent[1][1].content) =
                           LineFeeds(content)
                           + (IF content # <<>> /\ Last(content) # "\n"
                              THEN 1 ELSE 0)
                     /\ \A l \in PreviewLines :
                           content = l.content =>
                              tasks[id].sent[1] =
                                 <<PreviewLoaded(PathOf(id), l.lines)>>

\* The file /b was added and then previewed: it was found with a detected
\* type that is not text, and the task returned Ok(()) with nothing sent.
C24_Witness ==
    /\ Len(tasks) = 2
    /\ tasks[1].task = AddPath("/b")
    /\ tasks[2].task = LoadPreview("/b")
    /\ \A id \in Ids : tasks[id].result = "ok"
    /\ tasks[2].rd = File("other", TRUE, <<"a", "\n", "a">>)
    /\ tasks[2].sent = <<>>
    /\ task_channel = <<>>
    /\ messages = Batch(0, <<NavigateToPath("/a")>>)

\* ------------------------------------------------------------------ C25
\* The operation that was run last with this task value.
LatestRun(task) ==
    CHOOSE id \in Ids :
        /\ tasks[id].task = task
        /\ \A later \in (id + 1)..Len(tasks) : tasks[later].task # task

\* C25: between two calls the tracked handles are of pairwise different
\* Task values, and the handle of a value is that of the operation run
\* last with it.
C25_OneHandlePerIdentity ==
    mgr.pc # "run" =>
        /\ \A j, k \in 1..Len(abort_handles) :
              j # k => abort_handles[j].task # abort_handles[k].task
        /\ \A k \in 1..Len(abort_handles) :
              /\ abort_handles[k].id \in Ids
              /\ tasks[abort_handles[k].id].task = abort_handles[k].task
              /\ abort_handles[k].id = LatestRun(abort_handles[k].task)

\* Two runs of one task value have returned: the one handle tracked is
\* that of the second operation, and the first was aborted by run().
C25_Witness ==
    /\ Idle
    /\ Len(tasks) = 2
    /\ tasks[1].task = tasks[2].task
    /\ tasks[1].by = "run"
    /\ Len(abort_handles) = 1
    /\ abort_handles[1].id = 2

\* ------------------------------------------------------------------ C26
\* C26: every tracked handle is the handle of a task that is running: a
\* task that has completed, with or without an error, or that was aborted
\* has no handle in the tracked set.
C26_HandleOnlyWhileRunning ==
    \A k \in 1..Len(abort_handles) :
        /\ tasks[abort_handles[k].id].result = "running"
        /\ ~tasks[abort_handles[k].id].aborted

\* ------------------------------------------------------------------ C27
\* The kinds that yield one message per path, and the message of a path.
PerPathKinds == {"AccessCloseWrite", "Create", "Remove"}
PathMessage(kind, path) ==
    CASE kind = "AccessCloseWrite" -> PathsWriteFinished(<<path>>)
      [] kind = "Create" -> PathsAdded(<<path>>)
      [] kind = "Remove" -> PathRemoved(path)

\* C27: every event is translated by its kind alone: close-after-write,
\* create and remove yield a batch with one message per path, in the order
\* of the paths (PathsWriteFinished([p]), PathsAdded([p]), PathRemoved(p));
\* every kind but these and the rename of both names yields no batch; the
\* rescan flag changes nothing.
C27_EventTranslation ==
    [][TakesNotifyResult
       => LET event == Head(notify_channel).result
          IN /\ event.kind \in PerPathKinds =>
                  /\ merge'.pc = "send"
                  /\ Len(merge'.held.msgs) = Len(event.paths)
                  /\ \A k \in 1..Len(event.paths) :
                        merge'.held.msgs[k] =
                           PathMessage(event.kind, event.paths[k])
             /\ event.kind \notin PerPathKinds \cup {"RenameBoth"} =>
                  /\ event.kind \in DroppedKinds
                  /\ merge' = merge
                  /\ channel' = channel
             /\ event.kind = "Remove" /\ event.paths = <<"/b", "/a">> =>
                  merge'.held.msgs = <<PathRemoved("/b"), PathRemoved("/a")>>
      ]_vars

\* The update loop received the batch of a create event with the paths /a
\* and /b: one PathsAdded for each, in that order.
C27_Witness ==
    /\ messages = Numbered(-2, 1, <<PathsAdded(<<"/a">>), PathsAdded(<<"/b">>)>>)
    /\ nnotify = 1
    /\ notify_channel = <<>>

\* ------------------------------------------------------------------ C28
\* The batch is the one with the message to navigate to the initial path.
IsNavigate(batch) == batch.msgs = <<NavigateToPath("/a")>>

\* The batch comes from the file system watcher or from a task.
IsForwarded(batch) == batch.src = -2 \/ batch.src > 0

\* C28: the batch [NavigateToPath(initial_path)] is put on the outbound
\* channel once: by the step that leaves the merge loop's first send, to
\* which the loop never returns; a batch of the watcher or of a task is put
\* on the channel only after it, and is received only after it.
C28_NavigateFirstAndOnce ==
    [][/\ Len(channel') > Len(channel) /\ IsNavigate(Last(channel')) =>
             merge.pc = "navigate" /\ merge'.pc = "select"
       /\ merge.pc # "navigate" => merge'.pc # "navigate"
       /\ merge.pc = "navigate" /\ merge'.pc # "navigate" =>
             /\ Len(channel') > Len(channel)
             /\ IsNavigate(Last(channel'))
       /\ Len(channel') > Len(channel) /\ IsForwarded(Last(channel')) =>
             merge.pc # "navigate"
       /\ IsForwarded(messages') =>
             /\ merge.pc # "navigate"
             /\ \A k \in 1..Len(channel') : ~IsNavigate(channel'[k])]_vars

\* The update loop has received the navigate batch, and the first batch
\* of the enumeration waits on the outbound channel behind it.
C28_Witness ==
    /\ IsNavigate(messages)
    /\ channel # <<>>
    /\ Head(channel).src > 0

\* ------------------------------------------------------------------ C29
\* The outbound channel is full.
Full == Len(channel) = ChannelCapacity

\* The listeners that wait to put their batch on the outbound channel.
WaitingToSend == {l \in 1..Len(listeners) : listeners[l].pc = "send"}

\* C29: the resolver lock is held only by a listener that is inside its
\* one call of add_and_resolve (a mode set takes and frees it in one step);
\* no listener that waits to send its batch holds it. Hence, with the
\* channel full and a listener waiting to send, the lock is free unless
\* another listener is resolving, and once it is free set_current_mode,
\* called by the update loop, is enabled.
C29_LockNeverHeldAcrossSend ==
    /\ lock # 0 =>
          /\ lock \in 1..Len(listeners)
          /\ listeners[lock].pc = "resolve"
    /\ \A l \in WaitingToSend : lock # l
    /\ \A l \in 1..Len(listeners) : listeners[l].pc = "resolve" => lock = l
    /\ Full /\ WaitingToSend # {} /\ lock = 0 /\ Ready =>
          ENABLED set_current_mode("Normal")

\* The channel is full, a listener waits to send the batch of the key g,
\* which it resolved as a pending sequence, and the update loop has set
\* the mode meanwhile: the resolver is in Normal mode, not the mode at
\* start, the lock is free and a further mode set is enabled.
C29_Witness ==
    /\ Full
    /\ lock = 0
    /\ resolver.mode = "Normal"
    /\ resolver.buffer = <<Plain("g")>>
    /\ \E l \in WaitingToSend : listeners[l].held = FromTerminal(1, <<>>)
    /\ ENABLED set_current_mode("Navigation")

\* ------------------------------------------------------------------ C30
\* The batch of the one message that inserts the key as text.
InsertOf(key) == <<Modification(<<"Insert", key>>)>>

\* C30: in Insert and Command mode a key that matches no node of the
\* mode's table (every key but Backspace, Enter, Delete, Left, Right and
\* Esc: `x`, the digit `2`, `j`, `g`) yields exactly one message, the
\* insertion of that key as text, and leaves the pending sequence, count
\* included, empty.
C30_UnmatchedKeyIsText ==
    [][ResolveStep /\ resolver.mode \in {"Insert", "Command"} =>
         /\ ~HasNode(resolver.mode, Fed) =>
               Emitted = InsertOf(ResolvedKey) /\ resolver'.buffer = <<>>
         /\ ResolvedKey \in {Plain("x"), Plain("2"), Plain("j"), Plain("g")} =>
               /\ resolver.buffer = <<>>
               /\ Emitted = InsertOf(ResolvedKey)
               /\ resolver'.buffer = <<>>]_vars

\* `x`, `2`, `g` were fed in Insert mode: the insertion of `x` was
\* received, that of `2` is on the channel, that of `g` is about to be
\* sent, and no sequence is pending.
C30_Witness ==
    /\ resolver.mode = "Insert"
    /\ nevents = 3
    /\ messages = FromTerminal(1, InsertOf(Plain("x")))
    /\ channel = <<FromTerminal(2, InsertOf(Plain("2")))>>
    /\ listeners[1].held = FromTerminal(3, InsertOf(Plain("g")))
    /\ resolver.buffer = <<>>

\* ------------------------------------------------------------------ C31
\* The modification that `o` and `O` are bound to in Normal mode.
NewLineOf(key) ==
    IF key = Plain("o") THEN "InsertNewLineUnder" ELSE "InsertNewLineAbove"

\* C31: in Normal mode `o` and Shift+`o`, alone or after a count, resolve
\* to exactly two messages, the change of mode from Normal to Insert first
\* and the insertion of a new line (under for `o`, above for `O`) second,
\* and leave no sequence pending; so does every binding of the kind
\* ModeAndTextModification of the mode's table.
C31_ModeThenModification ==
    [][ResolveStep /\ resolver.mode = "Normal" =>
         /\ ResolvedKey \in {Plain("o"), Shift("o")} /\ AllDigits(resolver.buffer) =>
               /\ Emitted = <<ChangeMode("Normal", "Insert"),
                              Modification(NewLineOf(ResolvedKey))>>
               /\ resolver'.buffer = <<>>
         /\ \A m \in KeyMap(resolver.mode) :
               m.binding.kind = "ModeAndTextModification" /\ Chord(Fed) = m.keys =>
                   /\ Len(Emitted) = 2
                   /\ Emitted[1] = ChangeMode(resolver.mode, m.binding.mode)
                   /\ Emitted[2] = Modification(m.binding.modification)
                   /\ resolver'.buffer = <<>>]_vars

\* `o` and then `2`, Shift+`o` were fed in Normal mode: the two messages
\* of `o` were received, those of `O` after the count are about to be sent.
C31_Witness ==
    /\ resolver.mode = "Normal"
    /\ nevents = 3
    /\ messages = FromTerminal(1, <<ChangeMode("Normal", "Insert"),
                                    Modification("InsertNewLineUnder")>>)
    /\ listeners[1].held = FromTerminal(3, <<ChangeMode("Normal", "Insert"),
                                             Modification("InsertNewLineAbove")>>)
    /\ resolver.buffer = <<>>

\* ------------------------------------------------------------------ C32
\* The repeat count the pending sequence `keys` holds: its leading digits.
RECURSIVE CountDigits(_)
CountDigits(keys) ==
    IF keys # <<>> /\ IsDigit(keys[1])
    THEN <<keys[1]>> \o CountDigits(Tail(keys))
    ELSE <<>>

\* Listener l returns from add_and_resolve with a resolved binding or an
\* unmatched key: its batch is not that of a sequence that stays pending.
Resolves(l) ==
    /\ listeners[l].pc = "resolve"
    /\ listeners'[l].pc = "send"
    /\ Lookup(resolver.mode, Append(resolver.buffer, listeners[l].key),
              1, 1, 0).kind # "pending"

\* C32: the repeat count is reset whenever a binding that is not a digit
\* of the count resolves, a key matches nothing, or the mode changes: after
\* such a step no digit is pending, so a count typed before it is not
\* applied to an action resolved after it.
C32_CountReset ==
    [][(\/ \E l \in 1..Len(listeners) : Resolves(l)
        \/ resolver'.mode # resolver.mode)
       => CountDigits(resolver'.buffer) = <<>>]_vars

\* ------------------------------------------------------------------ C33
\* C33: a suspend() that has sent its request to a running listener
\* eventually returns, whatever the outbound channel holds at the call.
C33_SuspendReturns == (emitter.pc = "suspend") ~> (emitter.pc = "idle")

\* ------------------------------------------------------------------ C34
\* The listeners whose future has not left its loop.
Active == {l \in 1..Len(listeners) : listeners[l].pc # "stopped"}

\* C34: at most one terminal listener is active, and every active listener
\* can still be stopped: the multiplexer holds the sender of its
\* cancellation channel, or a request to stop is on its way to it.
C34_OneStoppableListener ==
    /\ Cardinality(Active) <= 1
    /\ \A l \in Active : cancellation = l \/ listeners[l].rx = "requested"

\* ------------------------------------------------------------------ C35
\* C35: finishing() eventually returns, whether or not anybody receives
\* from the channels: every task that waits in a send was aborted by then
\* (by finishing() if it was tracked, by run() if it was replaced) and is
\* dropped, and the tasks that are left to complete never send.
C35_FinishingReturns ==
    /\ (mgr.pc = "join") ~> (mgr.pc = "finished")
    /\ \A variant \in AbortOnFinishVariants :
          should_abort_on_finish(Task(variant, <<>>))
    /\ [][\A id \in 1..Len(tasks) :
            tasks'[id].sent # tasks[id].sent =>
                tasks[id].task.variant \in AbortOnFinishVariants]_vars
    /\ [](mgr.pc \in {"join", "finished"} =>
            \A id \in 1..Len(tasks) :
                tasks[id].task.variant \in AbortOnFinishVariants /\ Running(id) =>
                    tasks[id].aborted)

\* finishing() has returned although the task channel is full and was not
\* emptied: the enumeration that waited to send its batch behind the
\* emitted messages was cancelled by finishing().
C35_Witness ==
    /\ mgr.pc = "finished"
    /\ task_channel = <<Batch(1, <<NavigateToPath("/b")>>)>>
    /\ Len(tasks) = 2
    /\ tasks[1].task.variant = "EmitMessages" /\ tasks[1].result = "ok"
    /\ tasks[2].task = EnumerateDirectory("/a")
    /\ tasks[2].result = "cancelled"
    /\ tasks[2].by = "finishing"
    /\ tasks[2].pc = "done"
    /\ Len(tasks[2].cache) = entries

\* ------------------------------------------------------------------ C36
\* The entry lists of the content messages execution `id` has sent, in the
\* order of the sends.
ContentLists(id) ==
    [k \in 1..Len(tasks[id].sent) |-> tasks[id].sent[k][1].content]

\* C36: the content messages of one enumeration are cumulative: the entry
\* list of each is a prefix of the list of every later one and of the
\* listing read_dir yields, which holds each entry once, and each is the
\* first message of its batch; the batches reach the update loop in the order they were
\* sent, so the last content message received holds every entry of the
\* earlier ones.
C36_ContentIsCumulative ==
    \A id \in Ids :
        IsEnumeration(id) =>
            LET lists == ContentLists(id)
            IN /\ \A k \in 1..Len(lists) :
                     /\ tasks[id].sent[k][1].type = "PathEnumerationContentChanged"
                     /\ IsPrefix(lists[k], tasks[id].rd)
                     /\ IsPrefix(lists[k], tasks[id].cache)
               /\ \A i, j \in 1..Len(lists) :
                     i < j => IsPrefix(lists[i], lists[j])
               /\ messages.src = id =>
                     \E k \in 1..Len(lists) :
                         /\ messages.msgs = tasks[id].sent[k]
                         /\ \A i \in 1..k : IsPrefix(lists[i], messages.msgs[1].content)

\* An enumeration of 400 entries was aborted after its third content
\* message: the lists of 100, 200 and 400 entries were sent, each a prefix
\* of the next, and the last was received.
C36_Witness ==
    /\ entries = 4 * InitialCacheSize
    /\ \E id \in Ids :
         /\ IsEnumeration(id)
         /\ tasks[id].result = "cancelled"
         /\ Len(tasks[id].sent) = 3
         /\ Len(ContentLists(id)[1]) = InitialCacheSize
         /\ Len(ContentLists(id)[3]) = 4 * InitialCacheSize
         /\ messages = Batch(id, tasks[id].sent[3])

\* ------------------------------------------------------------------ C37
\* Every spawned task has settled.
Settled == \A id \in Ids : ~Running(id)

\* The records of the history file.
FileRecords == {history_file.records[k] : k \in 1..Len(history_file.records)}

\* C37: once all tasks have settled, the record of every entry that a
\* completed SaveHistory task saved, and whose path exists, is in the
\* history file, whatever ran beside that task.
C37_SavedEntriesKept ==
    Settled =>
        \A id \in Ids :
            tasks[id].task.variant = "SaveHistory" /\ tasks[id].result = "ok" =>
                \A k \in 1..Len(tasks[id].task.payload[1]) :
                    LET entry == tasks[id].task.payload[1][k]
                    IN fs[entry.path] # "missing" =>
                           Record(entry.changed_at, entry.path) \in FileRecords

\* ------------------------------------------------------------------ C38
\* A step of the update loop that processes a WatchPath or UnwatchPath
\* action.
WatchOrUnwatchStep == app'.n # app.n

\* C38: a task that WatchPath(p) ran before an UnwatchPath(p) was
\* processed, be it the enumeration of a directory p or the preview of a
\* file p, is no longer tracked and, if it has not settled, was aborted, so
\* that it delivers nothing more for p; and an action with the default
\* path starts, aborts and registers nothing.
C38_UnwatchStopsTasks ==
    /\ [](\A id \in app.unwatched :
             /\ \A k \in 1..Len(abort_handles) : abort_handles[k].id # id
             /\ Running(id) => tasks[id].aborted)
    /\ [][WatchOrUnwatchStep /\ app'.last = DefaultPath =>
             /\ tasks' = tasks
             /\ abort_handles' = abort_handles
             /\ app'.watched = app.watched]_vars

\* ------------------------------------------------------------------ C39
\* A step of the update loop that receives a batch and updates the model.
UpdateStep == app.pc = "recv" /\ channel # <<>> /\ channel' = Tail(channel)

\* The ChangeMode messages of a batch, in order.
RECURSIVE ChangeModes(_)
ChangeModes(msgs) ==
    IF msgs = <<>> THEN <<>>
    ELSE IF Head(msgs).type = "ChangeMode"
         THEN <<Head(msgs)>> \o ChangeModes(Tail(msgs))
         ELSE ChangeModes(Tail(msgs))

\* Whether the batch holds an ExecuteCommand.
Executes(msgs) == \E i \in 1..Len(msgs) : msgs[i].type = "ExecuteCommand"

\* C39: whenever the update loop is at recv, having processed all the
\* post-render actions of the batches it received without quitting, the
\* resolver's mode is the model's mode. A ChangeMode(from, to) with
\* from == to changes neither mode and returns no action; one with
\* from != to sets the model's mode to `to` and returns ModeChanged(to),
\* whose processing sets the resolver's mode to `to`; the model's mode
\* changes in no other step.
C39_ResolverFollowsModel ==
    /\ [](app.pc = "recv" => resolver.mode = app.mode)
    /\ [](\A mode \in Modes : \A from \in Modes : \A to \in Modes :
            update_ChangeMode(mode, from, to) =
                IF from = to
                THEN [mode |-> mode, actions |-> <<>>]
                ELSE [mode |-> to, actions |-> <<ModeChanged(to)>>])
    /\ [][UpdateStep /\ ~Executes(Head(channel).msgs) =>
             LET changes == ChangeModes(Head(channel).msgs)
                 effective == SelectSeq(changes, LAMBDA m : m.from # m.to)
             IN /\ app'.actions =
                      [i \in 1..Len(effective) |-> ModeChanged(effective[i].to)]
                /\ app'.mode = IF effective = <<>> THEN app.mode
                               ELSE effective[Len(effective)].to
                /\ resolver' = resolver]_vars
    /\ [][app.pc = "actions" =>
             /\ app'.mode = app.mode
             /\ (app'.actions # app.actions /\ Head(app.actions).type = "ModeChanged"
                    => resolver'.mode = Head(app.actions).mode)]_vars

\* Ctrl+n in Navigation mode changed both modes to Normal; an Esc the
\* listener had resolved before, still in Navigation mode, then came as
\* ChangeMode(Navigation, Navigation) and changed neither.
C39_Witness ==
    /\ app.pc = "recv"
    /\ app.mode = "Normal"
    /\ resolver.mode = "Normal"
    /\ messages = FromTerminal(2, <<ChangeMode("Navigation", "Navigation")>>)


====
